---- MODULE Spec2Model ----
(***************************************************************************)
(* The sharded identifier-to-node map of go-fuse (package fs): the         *)
(* size-classed map pool (mapPool), one lock-guarded shard (mapShard) and  *)
(* the sharded map (shardedMap).                                           *)
(*                                                                         *)
(* Go maps are reference objects, so the model keeps a heap of map         *)
(* objects: a shard and a pool bucket hold references (ids) into it, and   *)
(* clear() acts on the object whoever else still refers to it.  A map      *)
(* object carries its entries (kv) and its allocated capacity (cap): the   *)
(* size hint it was made with, raised to the largest length it ever had    *)
(* (clear() keeps the allocation).                                         *)
(*                                                                         *)
(* Every critical section (one Lock/Unlock or RLock/RUnlock pair) is one   *)
(* step.  Delete is two critical sections, so it is two steps with the     *)
(* thread's position kept in pc.  The sync.Pool calls made inside a        *)
(* critical section are atomic by themselves and touch only the buckets.   *)
(***************************************************************************)
EXTENDS Integers, FiniteSets, Sequences, TLC

\* ---------------------------------------------------------------- constants
\* The program's constants (shardedmap.go).
mapShards == 32
defaultMapSize == 32
maxMapPower == 20
mapShrinkFactor == 8

\* The factor of the shrink test of simpleMap.Compact (simplemap.go).
simpleShrinkFactor == 100

\* The width of int32.
int32Bits == 32

\* Bounds of the model: the scaled-down configurations TLC explores.
SmallShardBits == 1
SmallShrinkFactor == 2
SmallMapPower == 1
MapKeys == 4
RaceKeys == 3
DeepKeys == 7
PoolKeys == 5
NumVals == 1
NumThreads == 2
MaxPooled == 1
CooldownTicks == 1
SmallSimpleFactor == 3
SmallIntBits == 4
SimpleKeys == 4
NarrowKeys == 3
BothKeys == 4
MaxHeld == 2
MaxLogArg == 1100
CountKeys == 4
LockKeys == 2
MaxPoolSize == 2
BufWidth == 2
MaxOut == 2
MaxOverflow == 1
MaxRouteKey == 70

VARIABLES
    cfg,         \* the constants this run is built with (never changes)
    heap,        \* map objects: id -> [cap, kv]
    shards,      \* shard index -> [entries (id, 0 is nil), count, countHigh]
    pools,       \* mapPool.pools: bucket index -> set of ids of pooled maps
    pc,          \* thread -> where it stands in a multi-step operation
    hist,        \* history: observed key -> its last mutation that took effect
    last,        \* history: the mapShard.Compact call made by the last step, if any
    sinceCompact, \* time elapsed since shardedMap.lastCompact, capped at the cool-down
    scn,         \* the position of the scripted workload, when one is run
    simple,      \* the simpleMap: [entries, count, countHigh]
    spc,         \* thread -> where it stands in an operation on the simpleMap
    held,        \* ids of the maps held by direct callers of the mapPool
    calc,        \* a pure function under evaluation: [fn, arg, arg2, done, out, out2]
    mu,          \* shard index -> its RWMutex: [w (the writer, 0 is none), r (the readers)]
    bp           \* the bytePool: [size, channel, pool, out]

vars == <<cfg, heap, shards, pools, pc, hist, last, sinceCompact, scn,
          simple, spc, held, calc, mu, bp>>

\* ------------------------------------------------------------------ helpers
Pow2(n) == 2 ^ n

Max(a, b) == IF a >= b THEN a ELSE b

EmptyKV == [k \in {} |-> 0]

\* bits.Len32: the number of bits needed to represent x (0 for 0).
RECURSIVE Len32(_)
Len32(x) == IF x = 0 THEN 0 ELSE 1 + Len32(x \div 2)

\* Faulty variant of nextLogBase2: the length of v instead of that of v - 1.
nextLogBase2OfV(v) == Len32(v)

\* Log of base two, round up (for v > 0); v - 1 wraps to 2^32 - 1 when v = 0.
nextLogBase2(v) == IF v = 0 THEN 32 ELSE Len32(v - 1)

\* num == 1 << n in uint32, for num < 2^31: 1 << 32 is 0, and 1 << 31 is
\* above every such num.
IsOneShifted(num, n) ==
    IF n >= 32 THEN num = 0 ELSE IF n = 31 THEN FALSE ELSE num = Pow2(n)

\* Log of base two, round down (for v > 0).
prevLogBase2(num) ==
    LET next == nextLogBase2(num)
    IN  IF IsOneShifted(num, next) THEN next ELSE next - 1

\* ------------------------------------------------------------ configuration
maxMapSizeOf(c) == Pow2(c.maxPower)

ShardIds(c) == 0 .. (c.shards - 1)
Buckets(c) == 0 .. (c.maxPower - 1)
Threads(c) == 1 .. c.threads

\* Several shards sharing one pool, several threads, one of which also calls
\* shardedMap.Compact.  The keys: one per shard, and more that route to shard 0.
CfgMap ==
    [shards |-> Pow2(SmallShardBits), defaultSize |-> 1, maxPower |-> SmallMapPower,
     shrinkFactor |-> SmallShrinkFactor,
     keys |-> {k \in 0 .. MapKeys : k < Pow2(SmallShardBits) \/ k % Pow2(SmallShardBits) = 0},
     vals |-> {1}, threads |-> NumThreads, sweepers |-> 1]

\* One shard under several threads, each of which also calls shardedMap.Compact.
CfgRace ==
    [shards |-> 1, defaultSize |-> 1, maxPower |-> SmallMapPower,
     shrinkFactor |-> SmallShrinkFactor, keys |-> 0 .. (RaceKeys - 1),
     vals |-> 0 .. NumVals, threads |-> NumThreads, sweepers |-> NumThreads]

\* One shard that can be loaded above maxMapSize.
CfgDeep ==
    [shards |-> 1, defaultSize |-> 1, maxPower |-> SmallMapPower,
     shrinkFactor |-> SmallShrinkFactor, keys |-> 0 .. (DeepKeys - 1),
     vals |-> {1}, threads |-> 1, sweepers |-> 0]

\* One shard whose shrinks both feed and draw from the pool's buckets.
CfgPool ==
    [shards |-> 1, defaultSize |-> Pow2(SmallMapPower), maxPower |-> SmallMapPower + 1,
     shrinkFactor |-> SmallShrinkFactor, keys |-> 0 .. (PoolKeys - 1),
     vals |-> {1}, threads |-> 1, sweepers |-> 0]

\* The program as compiled.
CfgReal ==
    [shards |-> mapShards, defaultSize |-> defaultMapSize, maxPower |-> maxMapPower,
     shrinkFactor |-> mapShrinkFactor, keys |-> {}, vals |-> {1}, threads |-> 1, sweepers |-> 0]

Configs == {CfgRace, CfgDeep, CfgPool}

MapConfigs == {CfgMap}

\* ------------------------------------------------------------------- heap
\* The pool operations act on st = [heap, pools].
NewId(h) == CHOOSE i \in 1 .. (Cardinality(DOMAIN h) + 1) : i \notin DOMAIN h

\* make(map[K]V, hint)
Make(st, hint) ==
    LET id == NewId(st.heap)
    IN  [st |-> [st EXCEPT !.heap = [i \in DOMAIN st.heap \cup {id} |->
                        IF i = id THEN [cap |-> hint, kv |-> EmptyKV] ELSE st.heap[i]]],
         id |-> id]

MapLen(h, id) == Cardinality(DOMAIN h[id].kv)

\* m[k] = v on the map object id
MapStore(h, id, k, v) ==
    LET kv == [x \in DOMAIN h[id].kv \cup {k} |-> IF x = k THEN v ELSE h[id].kv[x]]
    IN  [h EXCEPT ![id] = [cap |-> Max(h[id].cap, Cardinality(DOMAIN kv)), kv |-> kv]]

\* delete(m, k) on the map object id
MapRemove(h, id, k) ==
    [h EXCEPT ![id].kv = [x \in DOMAIN h[id].kv \ {k} |-> h[id].kv[x]]]

\* clear(m): the entries go, the allocation stays
MapClear(h, id) == [h EXCEPT ![id].kv = EmptyKV]

\* ------------------------------------------------------------------- mapPool
\* sync.Pool.Get on bucket idx: some pooled map, or nil (the pool may always
\* behave as if it were empty).  0 stands for nil.
SyncPoolGet(st, idx) == st.pools[idx] \cup {0}

\* sync.Pool.Put on bucket idx.  sync.Pool may drop what it is given; the model
\* keeps at most MaxPooled maps per bucket and drops the rest.
SyncPoolPut(st, idx, id) ==
    IF Cardinality(st.pools[idx]) < MaxPooled
    THEN [st EXCEPT !.pools[idx] = @ \cup {id}]
    ELSE st

\* Faulty variant of PoolGet: a length above maxSize is served from the
\* largest bucket.
PoolGetClamped(c, st, length0) ==
    LET length == IF length0 = 0 THEN c.defaultSize ELSE length0
        idx == IF nextLogBase2(length) >= c.maxPower THEN c.maxPower - 1
               ELSE nextLogBase2(length)
    IN  { IF ptr # 0
          THEN [st |-> [st EXCEPT !.pools[idx] = @ \ {ptr}], id |-> ptr]
          ELSE Make(st, Pow2(idx)) : ptr \in SyncPoolGet(st, idx) }

\* Faulty variant of PoolGet: the bucket is chosen by rounding down.
PoolGetRoundDown(c, st, length0) ==
    LET length == IF length0 = 0 THEN c.defaultSize ELSE length0
        idx == prevLogBase2(length)
    IN  IF length > maxMapSizeOf(c) THEN {Make(st, length)}
        ELSE IF idx >= c.maxPower THEN {Make(st, length)}
        ELSE { IF ptr # 0
               THEN [st |-> [st EXCEPT !.pools[idx] = @ \ {ptr}], id |-> ptr]
               ELSE Make(st, Pow2(idx)) : ptr \in SyncPoolGet(st, idx) }

\* Faulty variant of PoolGet: the map handed out stays in its bucket.
PoolGetLeavesPooled(c, st, length0) ==
    LET length == IF length0 = 0 THEN c.defaultSize ELSE length0
        idx == nextLogBase2(length)
    IN  IF length > maxMapSizeOf(c) THEN {Make(st, length)}
        ELSE IF idx >= c.maxPower THEN {Make(st, length)}
        ELSE { IF ptr # 0
               THEN [st |-> st, id |-> ptr]
               ELSE Make(st, Pow2(idx)) : ptr \in SyncPoolGet(st, idx) }

\* mapPool.Get: the set of possible results [st, id].
PoolGet(c, st, length0) ==
    LET length == IF length0 = 0 THEN c.defaultSize ELSE length0
        idx == nextLogBase2(length)
    IN  IF length > maxMapSizeOf(c) THEN {Make(st, length)}
        ELSE IF idx >= c.maxPower THEN {Make(st, length)}
        ELSE { IF ptr # 0
               THEN [st |-> [st EXCEPT !.pools[idx] = @ \ {ptr}], id |-> ptr]
               ELSE Make(st, Pow2(idx)) : ptr \in SyncPoolGet(st, idx) }

\* Faulty variant of PoolPut: the map is pooled with its entries.
PoolPutNoClear(c, st, id) ==
    LET mapLength == MapLen(st.heap, id)
        idx == prevLogBase2(mapLength)
    IN  IF mapLength = 0 \/ mapLength > maxMapSizeOf(c) THEN st
        ELSE IF idx >= c.maxPower THEN st
        ELSE SyncPoolPut(st, idx, id)

\* Faulty variant of PoolPut: the bucket is chosen by rounding up.
PoolPutRoundUp(c, st, id) ==
    LET mapLength == MapLen(st.heap, id)
        idx == nextLogBase2(mapLength)
    IN  IF mapLength = 0 \/ mapLength > maxMapSizeOf(c) THEN st
        ELSE IF idx >= c.maxPower THEN st
        ELSE SyncPoolPut([st EXCEPT !.heap = MapClear(@, id)], idx, id)

\* mapPool.Put
PoolPut(c, st, id) ==
    LET mapLength == MapLen(st.heap, id)
        idx == prevLogBase2(mapLength)
    IN  IF mapLength = 0 \/ mapLength > maxMapSizeOf(c) THEN st
        ELSE IF idx >= c.maxPower THEN st
        ELSE SyncPoolPut([st EXCEPT !.heap = MapClear(@, id)], idx, id)

\* ------------------------------------------------------------------ mapShard
NilShard == [entries |-> 0, count |-> 0, countHigh |-> 0]

\* mapShard.Get: (value, found); the zero value is 0 (nil).
ShardGet(sh, h, id) ==
    IF sh.entries = 0 THEN [val |-> 0, found |-> FALSE]
    ELSE IF id \in DOMAIN h[sh.entries].kv
         THEN [val |-> h[sh.entries].kv[id], found |-> TRUE]
         ELSE [val |-> 0, found |-> FALSE]

\* Faulty variant of ShardSet: an overwrite is counted as a new entry.
ShardSetDoubleCount(c, sh, st, id, val) ==
    { LET e == IF sh.entries = 0 THEN g.id ELSE sh.entries
          s1 == IF sh.entries = 0 THEN g.st ELSE st
          cnt == sh.count + 1
      IN  [sh |-> [entries |-> e, count |-> cnt,
                   countHigh |-> IF cnt > sh.countHigh THEN cnt ELSE sh.countHigh],
           st |-> [s1 EXCEPT !.heap = MapStore(@, e, id, val)]]
      : g \in IF sh.entries = 0 THEN PoolGet(c, st, c.defaultSize)
                                ELSE {[st |-> st, id |-> sh.entries]} }

\* Faulty variant of ShardSet: the first table is requested at twice defaultSize.
ShardSetBigTable(c, sh, st, id, val) ==
    { LET e == IF sh.entries = 0 THEN g.id ELSE sh.entries
          s1 == IF sh.entries = 0 THEN g.st ELSE st
          exists == id \in DOMAIN s1.heap[e].kv
          cnt == (IF exists THEN sh.count - 1 ELSE sh.count) + 1
      IN  [sh |-> [entries |-> e, count |-> cnt,
                   countHigh |-> IF cnt > sh.countHigh THEN cnt ELSE sh.countHigh],
           st |-> [s1 EXCEPT !.heap = MapStore(@, e, id, val)]]
      : g \in IF sh.entries = 0 THEN PoolGet(c, st, 2 * c.defaultSize)
                                ELSE {[st |-> st, id |-> sh.entries]} }

\* Faulty variant of ShardSet: the high-water mark is raised on every call.
ShardSetRaisesHigh(c, sh, st, id, val) ==
    { LET e == IF sh.entries = 0 THEN g.id ELSE sh.entries
          s1 == IF sh.entries = 0 THEN g.st ELSE st
          exists == id \in DOMAIN s1.heap[e].kv
          cnt == (IF exists THEN sh.count - 1 ELSE sh.count) + 1
      IN  [sh |-> [entries |-> e, count |-> cnt,
                   countHigh |-> IF cnt >= sh.countHigh THEN cnt ELSE sh.countHigh + 1],
           st |-> [s1 EXCEPT !.heap = MapStore(@, e, id, val)]]
      : g \in IF sh.entries = 0 THEN PoolGet(c, st, c.defaultSize)
                                ELSE {[st |-> st, id |-> sh.entries]} }

\* mapShard.Set: the set of possible results [sh, st].
ShardSet(c, sh, st, id, val) ==
    { LET e == IF sh.entries = 0 THEN g.id ELSE sh.entries
          s1 == IF sh.entries = 0 THEN g.st ELSE st
          exists == id \in DOMAIN s1.heap[e].kv
          cnt == (IF exists THEN sh.count - 1 ELSE sh.count) + 1
      IN  [sh |-> [entries |-> e, count |-> cnt,
                   countHigh |-> IF cnt > sh.countHigh THEN cnt ELSE sh.countHigh],
           st |-> [s1 EXCEPT !.heap = MapStore(@, e, id, val)]]
      : g \in IF sh.entries = 0 THEN PoolGet(c, st, c.defaultSize)
                                ELSE {[st |-> st, id |-> sh.entries]} }

\* Faulty variant of DeleteHits: only the table is tested, not the key.
DeleteHitsAnyKey(sh, h, id) == sh.entries # 0

\* The first critical section of mapShard.Delete: whether the key was there.
DeleteHits(sh, h, id) == sh.entries # 0 /\ id \in DOMAIN h[sh.entries].kv

\* The first critical section of mapShard.Delete when the key is there.
ShardRemove(sh, st, id) ==
    [sh |-> [sh EXCEPT !.count = @ - 1],
     st |-> [st EXCEPT !.heap = MapRemove(@, sh.entries, id)]]

\* Faulty variant of CopyAll: nothing is copied.
CopyAllLossy(h, from, to) == h

\* The loop of mapShard.Compact that copies every entry of map from into map to.
CopyAll(h, from, to) ==
    LET kv == [x \in DOMAIN h[to].kv \cup DOMAIN h[from].kv |->
                  IF x \in DOMAIN h[from].kv THEN h[from].kv[x] ELSE h[to].kv[x]]
    IN  [h EXCEPT ![to] = [cap |-> Max(h[to].cap, Cardinality(DOMAIN kv)), kv |-> kv]]

\* Faulty variant of ShouldShrink: a count at exactly 1/shrinkFactor of the
\* high-water mark shrinks too.
ShouldShrinkAtEqual(c, sh) ==
    /\ ~(sh.count > maxMapSizeOf(c))
    /\ ~(sh.count * c.shrinkFactor > sh.countHigh)

\* Faulty variant of ShouldShrink: no test against maxMapSize.
ShouldShrinkNoMax(c, sh) == ~(sh.count * c.shrinkFactor >= sh.countHigh)

\* The shrink decision of mapShard.Compact, for count # 0.
ShouldShrink(c, sh) ==
    /\ ~(sh.count > maxMapSizeOf(c))
    /\ ~(sh.count * c.shrinkFactor >= sh.countHigh)

\* Faulty variant of CompactDrain: the high-water mark is not reset.
CompactDrainKeepsHigh(c, sh, st) ==
    [sh |-> [entries |-> 0, count |-> 0, countHigh |-> sh.countHigh],
     st |-> IF sh.entries # 0 THEN PoolPut(c, st, sh.entries) ELSE st,
     br |-> "drain"]

\* Faulty variant of CompactDrain: the table stays installed.
CompactDrainKeepsTable(c, sh, st) ==
    [sh |-> [entries |-> sh.entries, count |-> 0, countHigh |-> 0],
     st |-> IF sh.entries # 0 THEN PoolPut(c, st, sh.entries) ELSE st,
     br |-> "drain"]

\* The branch of mapShard.Compact taken at count = 0.
CompactDrain(c, sh, st) ==
    [sh |-> [entries |-> 0, count |-> 0, countHigh |-> 0],
     st |-> IF sh.entries # 0 THEN PoolPut(c, st, sh.entries) ELSE st,
     br |-> "drain"]

\* Faulty variant of CompactShrink: the old map goes to the pool before the copy.
CompactShrinkPutFirst(c, sh, g) ==
    LET put == PoolPut(c, g.st, sh.entries)
        copied == [put EXCEPT !.heap = CopyAll(@, sh.entries, g.id)]
        n == MapLen(copied.heap, g.id)
    IN  [sh |-> [entries |-> g.id, count |-> n, countHigh |-> n], st |-> copied,
         br |-> "shrink"]

\* Faulty variant of CompactShrink: countHigh is set to the new map's capacity.
CompactShrinkToCap(c, sh, g) ==
    LET copied == [g.st EXCEPT !.heap = CopyAll(@, sh.entries, g.id)]
        put == PoolPut(c, copied, sh.entries)
    IN  [sh |-> [entries |-> g.id, count |-> MapLen(put.heap, g.id),
                 countHigh |-> put.heap[g.id].cap],
         st |-> put, br |-> "shrink"]

\* Faulty variant of CompactShrink: countHigh is left as it was.
CompactShrinkKeepsHigh(c, sh, g) ==
    LET copied == [g.st EXCEPT !.heap = CopyAll(@, sh.entries, g.id)]
        put == PoolPut(c, copied, sh.entries)
    IN  [sh |-> [entries |-> g.id, count |-> MapLen(put.heap, g.id),
                 countHigh |-> sh.countHigh],
         st |-> put, br |-> "shrink"]

\* The shrinking branch of mapShard.Compact, with the map g the pool handed out.
CompactShrink(c, sh, g) ==
    LET copied == [g.st EXCEPT !.heap = CopyAll(@, sh.entries, g.id)]
        put == PoolPut(c, copied, sh.entries)
        n == MapLen(put.heap, g.id)
    IN  [sh |-> [entries |-> g.id, count |-> n, countHigh |-> n], st |-> put,
         br |-> "shrink"]

\* Faulty variant of ShardCompact: at count = 0 the call returns at once.
ShardCompactSkipsEmpty(c, sh, st) ==
    IF sh.count = 0 THEN {[sh |-> sh, st |-> st, br |-> "keep"]}
    ELSE IF ~ShouldShrink(c, sh) THEN {[sh |-> sh, st |-> st, br |-> "keep"]}
    ELSE {CompactShrink(c, sh, g) : g \in PoolGet(c, st, sh.count * 2)}

\* mapShard.Compact: the set of possible results [sh, st, br], br the branch taken.
ShardCompact(c, sh, st) ==
    IF sh.count = 0 THEN {CompactDrain(c, sh, st)}
    ELSE IF ~ShouldShrink(c, sh) THEN {[sh |-> sh, st |-> st, br |-> "keep"]}
    ELSE {CompactShrink(c, sh, g) : g \in PoolGet(c, st, sh.count * 2)}

\* mapShard.Count
ShardCount(sh) == sh.count

\* ---------------------------------------------------------------- shardedMap
\* a & b on unsigned integers
RECURSIVE BitAnd(_, _)
BitAnd(a, b) ==
    IF a = 0 \/ b = 0 THEN 0
    ELSE (a % 2) * (b % 2) + 2 * BitAnd(a \div 2, b \div 2)

\* Faulty variant of getMapShardKey: every key goes to shard 0.
getMapShardKeyZero(c, id) == 0

\* Faulty variant of getMapShardKey: the mask is the shard count itself.
getMapShardKeyNoMask(c, id) == BitAnd(id, c.shards)

\* shardedMap.getMapShardKey for uint64 keys
getMapShardKey(c, id) == BitAnd(id, c.shards - 1)

Idle == [op |-> "idle", shard |-> 0, pend |-> {}]

NeverSet == [set |-> FALSE, val |-> 0]

\* The history after a mutation m of key id (kept for the observed keys only).
Noted(id, m) == IF id \in DOMAIN hist THEN [hist EXCEPT ![id] = m] ELSE hist

\* No Compact call, and the record of one: the branch it took, its shard, the
\* map installed when it was called (0 is nil) and its caller.
NoCompact == [br |-> "none", shard |-> 0, from |-> 0, via |-> "none"]

Compacted(r, s, via) == [br |-> r.br, shard |-> s, from |-> shards[s].entries, via |-> via]

\* The record of a mapShard.Delete on shard s that returned at one of its
\* early returns: no Compact call was made.
Missed(s) == [br |-> "none", shard |-> s, from |-> shards[s].entries, via |-> "miss"]

\* The map objects still referred to by a shard or a bucket; the rest is garbage.
Live(sh, po) ==
    {sh[s].entries : s \in DOMAIN sh} \cup UNION {po[b] : b \in DOMAIN po}

Collect(h, sh, po) == [i \in DOMAIN h \cap (Live(sh, po) \cup held) |-> h[i]]

\* Install the result r = [sh, st] of an operation on shard s.
Install(s, r) ==
    LET sh == [shards EXCEPT ![s] = r.sh]
    IN  /\ shards' = sh
        /\ pools' = r.st.pools
        /\ heap' = Collect(r.st.heap, sh, r.st.pools)

St == [heap |-> heap, pools |-> pools]

\* shardedMap.Init
InitWith(c) ==
    /\ cfg = c
    /\ heap = [i \in {} |-> 0]
    /\ shards = [s \in ShardIds(c) |-> NilShard]
    /\ pools = [b \in Buckets(c) |-> {}]
    /\ pc = [t \in Threads(c) |-> Idle]
    /\ hist = [k \in c.keys |-> NeverSet]
    /\ last = NoCompact
    /\ sinceCompact = CooldownTicks

Unscripted == [phase |-> "off", n |-> 0]

\* A simpleMap that was declared and never used (the zero value of the struct).
NoMap == [present |-> FALSE, cap |-> 0, kv |-> EmptyKV]

ZeroSimple == [entries |-> NoMap, count |-> 0, countHigh |-> 0]

NoCalc == [fn |-> "none", arg |-> 0, arg2 |-> 0, done |-> FALSE, out |-> 0, out2 |-> 0]

\* The locks of a map on which no call is in flight.
Unlocked(c) == [s \in ShardIds(c) |-> [w |-> 0, r |-> {}]]

\* No call was made on the bytePool: the record of the last call.
NoBufCall == [op |-> "none", via |-> "none", buf |-> [len |-> 0, cap |-> 0, was |-> "none"]]

\* No bytePool was created.
NoBytePool == [size |-> 0, channel |-> <<>>, pool |-> <<>>, out |-> <<>>, did |-> NoBufCall]

\* Nothing but the shardedMap is in use.
ShardedOnly ==
    /\ simple = ZeroSimple
    /\ spc = [t \in Threads(cfg) |-> "idle"]
    /\ held = {}
    /\ mu = Unlocked(cfg)
    /\ bp = NoBytePool
    /\ calc = NoCalc

Init == (\E c \in Configs : InitWith(c)) /\ scn = Unscripted /\ ShardedOnly

InitMap == (\E c \in MapConfigs : InitWith(c)) /\ scn = Unscripted /\ ShardedOnly

\* What shardedMap.Get(id) returns in the current state.
MapGet(id) == ShardGet(shards[getMapShardKey(cfg, id)], heap, id)

\* shardedMap.Get: a read under the shard's read lock; nothing is written.
Get(t, id) ==
    /\ pc[t].op = "idle"
    /\ MapGet(id).found \in BOOLEAN
    /\ last' = NoCompact
    /\ UNCHANGED <<cfg, heap, shards, pools, pc, hist, sinceCompact>>

\* shardedMap.Set
Set(t, id, val) ==
    /\ pc[t].op = "idle"
    /\ LET s == getMapShardKey(cfg, id)
       IN  \E r \in ShardSet(cfg, shards[s], St, id, val) : Install(s, r)
    /\ hist' = Noted(id, [set |-> TRUE, val |-> val])
    /\ last' = NoCompact
    /\ UNCHANGED <<cfg, pc, sinceCompact>>

\* shardedMap.Delete, up to the first Unlock of mapShard.Delete
Delete(t, id) ==
    /\ pc[t].op = "idle"
    /\ LET s == getMapShardKey(cfg, id)
       IN  IF DeleteHits(shards[s], heap, id)
           THEN /\ Install(s, ShardRemove(shards[s], St, id))
                /\ hist' = Noted(id, [set |-> FALSE, val |-> 0])
                /\ pc' = [pc EXCEPT ![t] = [op |-> "delete", shard |-> s, pend |-> {}]]
                /\ last' = NoCompact
           ELSE /\ UNCHANGED <<heap, shards, pools, hist, pc>>
                /\ last' = Missed(s)
    /\ UNCHANGED <<cfg, sinceCompact>>

\* The s.Compact() call that ends mapShard.Delete
DeleteCompact(t) ==
    /\ pc[t].op = "delete"
    /\ \E r \in ShardCompact(cfg, shards[pc[t].shard], St) :
          Install(pc[t].shard, r) /\ last' = Compacted(r, pc[t].shard, "delete")
    /\ pc' = [pc EXCEPT ![t] = Idle]
    /\ UNCHANGED <<cfg, hist, sinceCompact>>

\* mapShard.Compact called on shard s directly
Compact(t, s) ==
    /\ pc[t].op = "idle"
    /\ \E r \in ShardCompact(cfg, shards[s], St) :
          Install(s, r) /\ last' = Compacted(r, s, "direct")
    /\ UNCHANGED <<cfg, pc, hist, sinceCompact>>

\* shardedMap.Compact: the cool-down test.  lastCompact is read without a lock;
\* a read that overlaps another caller's write may see either value.
MapCompact(t) ==
    /\ t <= cfg.sweepers
    /\ pc[t].op = "idle"
    /\ \E pass \in IF \E u \in DOMAIN pc : u # t /\ pc[u].op = "stamp"
                   THEN BOOLEAN ELSE {~(sinceCompact < CooldownTicks)} :
          pc' = [pc EXCEPT ![t] = IF pass THEN [op |-> "stamp", shard |-> 0, pend |-> {}]
                                          ELSE Idle]
    /\ last' = NoCompact
    /\ UNCHANGED <<cfg, heap, shards, pools, hist, sinceCompact>>

\* shardedMap.Compact: lastCompact = time.Now(), one goroutine per shard
MapCompactStart(t) ==
    /\ pc[t].op = "stamp"
    /\ sinceCompact' = 0
    /\ pc' = [pc EXCEPT ![t] = [op |-> "sweep", shard |-> 0, pend |-> DOMAIN shards]]
    /\ last' = NoCompact
    /\ UNCHANGED <<cfg, heap, shards, pools, hist>>

\* One goroutine of shardedMap.Compact: s.Compact() and wg.Done()
SweepShard(t, s) ==
    /\ pc[t].op = "sweep"
    /\ s \in pc[t].pend
    /\ \E r \in ShardCompact(cfg, shards[s], St) :
          Install(s, r) /\ last' = Compacted(r, s, "sweep")
    /\ pc' = [pc EXCEPT ![t].pend = @ \ {s}]
    /\ UNCHANGED <<cfg, hist, sinceCompact>>

\* shardedMap.Compact: wg.Wait() returns
SweepJoin(t) ==
    /\ pc[t].op = "sweep"
    /\ pc[t].pend = {}
    /\ pc' = [pc EXCEPT ![t] = Idle]
    /\ last' = NoCompact
    /\ UNCHANGED <<cfg, heap, shards, pools, hist, sinceCompact>>

\* Time passes.
Tick ==
    /\ sinceCompact < CooldownTicks
    /\ sinceCompact' = sinceCompact + 1
    /\ last' = NoCompact
    /\ UNCHANGED <<cfg, heap, shards, pools, pc, hist>>

\* The runtime reclaims a pooled map (sync.Pool is emptied by the collector).
PoolEvict(b, id) ==
    /\ id \in pools[b]
    /\ pools' = [pools EXCEPT ![b] = @ \ {id}]
    /\ heap' = Collect(heap, shards, pools')
    /\ last' = NoCompact
    /\ UNCHANGED <<cfg, shards, pc, hist, sinceCompact>>

\* Every call but Set.
OtherCalls ==
    \/ \E t \in DOMAIN pc, id \in cfg.keys : Get(t, id)
    \/ \E t \in DOMAIN pc, id \in cfg.keys : Delete(t, id)
    \/ \E t \in DOMAIN pc : DeleteCompact(t)
    \/ \E t \in DOMAIN pc, s \in DOMAIN shards : Compact(t, s)
    \/ \E t \in DOMAIN pc : MapCompact(t)
    \/ \E t \in DOMAIN pc : MapCompactStart(t)
    \/ \E t \in DOMAIN pc, s \in DOMAIN shards : SweepShard(t, s)
    \/ \E t \in DOMAIN pc : SweepJoin(t)
    \/ Tick
    \/ \E b \in DOMAIN pools, id \in DOMAIN heap : PoolEvict(b, id)

Calls ==
    \/ \E t \in DOMAIN pc, id \in cfg.keys, val \in cfg.vals : Set(t, id, val)
    \/ OtherCalls

Next == Calls /\ UNCHANGED <<scn, simple, spc, held, calc, mu, bp>>

Spec == Init /\ [][Next]_vars

SpecMap == InitMap /\ [][Next]_vars

SpecAll == (Init \/ InitMap) /\ [][Next]_vars

\* ------------------------------------------------------ the scripted workload
\* The program as compiled, one thread, on keys that all route to shard 0:
\* Set of 1000 distinct keys, then Delete of the same keys one at a time.
ScriptKeys == {mapShards * i : i \in 0 .. 999}

ScriptKey(i) == mapShards * i

InitScript == InitWith(CfgReal) /\ scn = [phase |-> "fill", n |-> 0] /\ ShardedOnly

ScriptSet ==
    /\ scn.phase = "fill"
    /\ Set(1, ScriptKey(scn.n), 1)
    /\ scn' = IF scn.n + 1 = Cardinality(ScriptKeys)
              THEN [phase |-> "drain", n |-> 0]
              ELSE [phase |-> "fill", n |-> scn.n + 1]
    /\ UNCHANGED <<simple, spc, held, calc, mu, bp>>

ScriptDelete ==
    /\ scn.phase = "drain"
    /\ scn.n < Cardinality(ScriptKeys)
    /\ Delete(1, ScriptKey(scn.n))
    /\ scn' = [phase |-> "drain", n |-> scn.n + 1]
    /\ UNCHANGED <<simple, spc, held, calc, mu, bp>>

ScriptDeleteCompact ==
    /\ scn.phase = "drain"
    /\ DeleteCompact(1)
    /\ UNCHANGED <<scn, simple, spc, held, calc, mu, bp>>

NextScript == ScriptSet \/ ScriptDelete \/ ScriptDeleteCompact

SpecScript == InitScript /\ [][NextScript]_vars

\* ------------------------------------------------------- shardedMap.Count
\* Several shards and several threads, one of which may be inside Count.  calc
\* holds the call: arg is the calling thread, out the counts gathered so far
\* (their sum is formed after wg.Wait()), out2 is 1 as long as no other call
\* was in flight since the Count began.
CfgCount ==
    [shards |-> Pow2(SmallShardBits), defaultSize |-> 1, maxPower |-> SmallMapPower,
     shrinkFactor |-> SmallShrinkFactor,
     keys |-> {k \in 0 .. CountKeys : k < Pow2(SmallShardBits) \/ k % Pow2(SmallShardBits) = 0},
     vals |-> {1}, threads |-> NumThreads, sweepers |-> 1]

InitCount == InitWith(CfgCount) /\ scn = Unscripted /\ ShardedOnly

Counting == calc.fn = "count" /\ ~calc.done

\* Faulty variant of CountShard: the count of shard 0 stands for every shard.
CountShardFirst(s) == ShardCount(shards[0])

\* The goroutine of shardedMap.Count for shard s: counts[index] = s.Count()
CountShard(s) == ShardCount(shards[s])

\* shardedMap.Count: wg.Add, one goroutine per shard.  The threads differ only
\* in that the first cfg.sweepers of them also call shardedMap.Compact; Count is
\* called by the others.
CountStart(t) ==
    /\ ~Counting
    /\ t > cfg.sweepers
    /\ pc[t].op = "idle"
    /\ pc' = [pc EXCEPT ![t] = [op |-> "count", shard |-> 0, pend |-> DOMAIN shards]]
    /\ calc' = [fn |-> "count", arg |-> t, arg2 |-> 0, done |-> FALSE, out |-> 0,
                out2 |-> IF \A u \in DOMAIN pc : pc[u].op = "idle" THEN 1 ELSE 0]
    /\ last' = NoCompact
    /\ UNCHANGED <<cfg, heap, shards, pools, hist, sinceCompact, scn, simple, spc, held, mu, bp>>

\* One goroutine of shardedMap.Count, under the shard's read lock
CountTask(t, s) ==
    /\ Counting
    /\ pc[t].op = "count"
    /\ s \in pc[t].pend
    /\ pc' = [pc EXCEPT ![t].pend = @ \ {s}]
    /\ calc' = [calc EXCEPT !.out = @ + CountShard(s)]
    /\ last' = NoCompact
    /\ UNCHANGED <<cfg, heap, shards, pools, hist, sinceCompact, scn, simple, spc, held, mu, bp>>

\* shardedMap.Count: wg.Wait() returns, the counts are summed and returned
CountJoin(t) ==
    /\ Counting
    /\ pc[t].op = "count"
    /\ pc[t].pend = {}
    /\ pc' = [pc EXCEPT ![t] = Idle]
    /\ calc' = [calc EXCEPT !.done = TRUE]
    /\ last' = NoCompact
    /\ UNCHANGED <<cfg, heap, shards, pools, hist, sinceCompact, scn, simple, spc, held, mu, bp>>

\* Any other call, or time passing: a Count in progress is no longer alone,
\* and a Count that has returned is no longer the last thing that happened.
AroundCount ==
    /\ Calls
    /\ calc' = IF Counting THEN [calc EXCEPT !.out2 = 0] ELSE NoCalc
    /\ UNCHANGED <<scn, simple, spc, held, mu, bp>>

NextCount ==
    \/ \E t \in DOMAIN pc : CountStart(t)
    \/ \E t \in DOMAIN pc, s \in DOMAIN shards : CountTask(t, s)
    \/ \E t \in DOMAIN pc : CountJoin(t)
    \/ AroundCount

SpecCount == InitCount /\ [][NextCount]_vars

\* ------------------------------------------------------- the shards' locks
\* The calls of shardedMap with each shard's sync.RWMutex spelled out: a call
\* asks for the lock, gets it, runs its critical section and releases it, each
\* in a step of its own.  The critical section is run in the step that gets
\* the lock, on a key of the shard chosen then.
\*
\* pc[t].op is "idle", "<call>-wait" (Lock or RLock was called and has not
\* returned) or "<call>-in" (inside the critical section); "rem-in" is a Delete
\* that removed its key.  During a map-level Compact or Count, pc[t].pend holds
\* <<s, pos>> for the goroutine of every shard s that has not finished, pos
\* being "run" (RLock not called yet), "wait" or "in".
CfgLock ==
    [shards |-> Pow2(SmallShardBits), defaultSize |-> 1, maxPower |-> SmallMapPower,
     shrinkFactor |-> SmallShrinkFactor, keys |-> 0 .. (LockKeys - 1),
     vals |-> {1}, threads |-> NumThreads, sweepers |-> 1]

InitLocks == InitWith(CfgLock) /\ scn = Unscripted /\ ShardedOnly

\* The caller of a lock: thread t itself (g = 0) or the goroutine it started
\* for shard g - 1.
Task(t, g) == t * (cfg.shards + 1) + g

At(t, op, s) == [op |-> op, shard |-> s, pend |-> {}]

KeysAt(s) == {k \in cfg.keys : getMapShardKey(cfg, k) = s}

\* Some Lock call on the mutex of shard s has not returned.
WriterWaiting(s) ==
    \E u \in DOMAIN pc :
        \/ pc[u].op \in {"set-wait", "del-wait", "cmp-wait"} /\ pc[u].shard = s
        \/ pc[u].op = "sweep" /\ <<s, "wait">> \in pc[u].pend

\* sync.RWMutex.RLock returns at once: no writer holds the lock or waits for it.
CanRead(s) == mu[s].w = 0 /\ ~WriterWaiting(s)

\* sync.RWMutex.Lock returns: no writer and no reader holds the lock.
CanWrite(s) == mu[s].w = 0 /\ mu[s].r = {}

\* The callers blocked in RLock on shard s, in the positions p.
ReadersWaiting(p, s) ==
    {Task(u, 0) : u \in {x \in DOMAIN p : p[x].op = "get-wait" /\ p[x].shard = s}}
    \cup {Task(u, s + 1) : u \in {x \in DOMAIN p : p[x].op = "count" /\ <<s, "wait">> \in p[x].pend}}

\* The positions p after every RLock call blocked on shard s has returned.
Admitted(p, s) ==
    [u \in DOMAIN p |->
        IF p[u].op = "get-wait" /\ p[u].shard = s THEN [p[u] EXCEPT !.op = "get-in"]
        ELSE IF p[u].op = "count"
             THEN [p[u] EXCEPT !.pend = {IF x = <<s, "wait">> THEN <<s, "in">> ELSE x : x \in @}]
             ELSE p[u]]

\* sync.RWMutex.Unlock on shard s, the positions being p once the caller has
\* left its critical section: the blocked readers get the lock.
Unlock(p, s) ==
    /\ mu' = [mu EXCEPT ![s] = [w |-> 0, r |-> ReadersWaiting(p, s)]]
    /\ pc' = Admitted(p, s)

\* Faulty variant of RemoveUnlock: Delete keeps its lock while it calls Compact.
RemoveKeepsLock(t, s) ==
    /\ mu' = mu
    /\ pc' = [pc EXCEPT ![t] = At(t, "cmp-wait", s)]

\* mapShard.Delete: s.mu.Unlock() after the removal, then s.Compact() asks for
\* the lock again.
RemoveUnlock(t, s) == Unlock([pc EXCEPT ![t] = At(t, "cmp-wait", s)], s)

DataSame == UNCHANGED <<cfg, heap, shards, pools, hist, sinceCompact>>

\* Faulty variant of WgDone: the goroutine ends without wg.Done().
WgDoneMissing(pend, s) == pend

\* defer wg.Done() in the goroutine for shard s, which is inside its critical
\* section: the goroutine is finished.
WgDone(pend, s) == pend \ {<<s, "in">>}

\* shardedMap.Get -> mapShard.Get: s.mu.RLock()
GetRLock(t, s) ==
    /\ pc[t].op = "idle"
    /\ IF CanRead(s)
       THEN /\ mu' = [mu EXCEPT ![s].r = @ \cup {Task(t, 0)}]
            /\ pc' = [pc EXCEPT ![t] = At(t, "get-in", s)]
       ELSE /\ mu' = mu
            /\ pc' = [pc EXCEPT ![t] = At(t, "get-wait", s)]
    /\ last' = NoCompact
    /\ DataSame

\* mapShard.Get: the lookup and the deferred s.mu.RUnlock()
GetRUnlock(t) ==
    /\ pc[t].op = "get-in"
    /\ \A id \in KeysAt(pc[t].shard) : MapGet(id).found \in BOOLEAN
    /\ mu' = [mu EXCEPT ![pc[t].shard].r = @ \ {Task(t, 0)}]
    /\ pc' = [pc EXCEPT ![t] = Idle]
    /\ last' = NoCompact
    /\ DataSame

\* shardedMap.Set / shardedMap.Delete: s.mu.Lock() is called
WriteLock(t, op, s) ==
    /\ pc[t].op = "idle"
    /\ KeysAt(s) # {}
    /\ pc' = [pc EXCEPT ![t] = At(t, op, s)]
    /\ last' = NoCompact
    /\ mu' = mu
    /\ DataSame

\* mapShard.Set: s.mu.Lock() returns and the body runs
SetLocked(t, id, val) ==
    LET s == pc[t].shard
    IN  /\ pc[t].op = "set-wait"
        /\ id \in KeysAt(s)
        /\ CanWrite(s)
        /\ mu' = [mu EXCEPT ![s].w = Task(t, 0)]
        /\ \E r \in ShardSet(cfg, shards[s], St, id, val) : Install(s, r)
        /\ hist' = Noted(id, [set |-> TRUE, val |-> val])
        /\ pc' = [pc EXCEPT ![t] = At(t, "set-in", s)]
        /\ last' = NoCompact
        /\ UNCHANGED <<cfg, sinceCompact>>

\* mapShard.Delete: s.mu.Lock() returns and the first critical section runs
DeleteLocked(t, id) ==
    LET s == pc[t].shard
    IN  /\ pc[t].op = "del-wait"
        /\ id \in KeysAt(s)
        /\ CanWrite(s)
        /\ mu' = [mu EXCEPT ![s].w = Task(t, 0)]
        /\ IF DeleteHits(shards[s], heap, id)
           THEN /\ Install(s, ShardRemove(shards[s], St, id))
                /\ hist' = Noted(id, [set |-> FALSE, val |-> 0])
                /\ pc' = [pc EXCEPT ![t] = At(t, "rem-in", s)]
                /\ last' = NoCompact
           ELSE /\ UNCHANGED <<heap, shards, pools, hist>>
                /\ pc' = [pc EXCEPT ![t] = At(t, "del-in", s)]
                /\ last' = Missed(s)
        /\ UNCHANGED <<cfg, sinceCompact>>

\* mapShard.Set: the deferred s.mu.Unlock(); mapShard.Delete: s.mu.Unlock() and
\* return at an early return; mapShard.Compact called by Delete: the deferred
\* s.mu.Unlock()
WriteUnlock(t) ==
    /\ pc[t].op \in {"set-in", "del-in", "cmp-in"}
    /\ Unlock([pc EXCEPT ![t] = Idle], pc[t].shard)
    /\ last' = NoCompact
    /\ DataSame

\* mapShard.Delete after the removal: s.mu.Unlock(), then s.Compact()
RemoveDone(t) ==
    /\ pc[t].op = "rem-in"
    /\ RemoveUnlock(t, pc[t].shard)
    /\ last' = NoCompact
    /\ DataSame

\* mapShard.Compact called by Delete: s.mu.Lock() returns and the body runs
CompactLocked(t) ==
    LET s == pc[t].shard
    IN  /\ pc[t].op = "cmp-wait"
        /\ CanWrite(s)
        /\ mu' = [mu EXCEPT ![s].w = Task(t, 0)]
        /\ \E r \in ShardCompact(cfg, shards[s], St) :
              Install(s, r) /\ last' = Compacted(r, s, "delete")
        /\ pc' = [pc EXCEPT ![t] = At(t, "cmp-in", s)]
        /\ UNCHANGED <<cfg, hist, sinceCompact>>

\* shardedMap.Compact: the cool-down test
SweepTest(t) == MapCompact(t) /\ mu' = mu

\* shardedMap.Compact: lastCompact = time.Now(), one goroutine per shard, each
\* calling s.Compact(), which calls s.mu.Lock()
SweepStart(t) ==
    /\ pc[t].op = "stamp"
    /\ sinceCompact' = 0
    /\ pc' = [pc EXCEPT ![t] = [op |-> "sweep", shard |-> 0,
                                 pend |-> {<<s, "wait">> : s \in DOMAIN shards}]]
    /\ last' = NoCompact
    /\ mu' = mu
    /\ UNCHANGED <<cfg, heap, shards, pools, hist>>

\* A goroutine of shardedMap.Compact: s.mu.Lock() returns and the body of
\* mapShard.Compact runs
SweepLocked(t, s) ==
    /\ pc[t].op = "sweep"
    /\ <<s, "wait">> \in pc[t].pend
    /\ CanWrite(s)
    /\ mu' = [mu EXCEPT ![s].w = Task(t, s + 1)]
    /\ \E r \in ShardCompact(cfg, shards[s], St) :
          Install(s, r) /\ last' = Compacted(r, s, "sweep")
    /\ pc' = [pc EXCEPT ![t].pend = (@ \ {<<s, "wait">>}) \cup {<<s, "in">>}]
    /\ UNCHANGED <<cfg, hist, sinceCompact>>

\* A goroutine of shardedMap.Compact: the deferred s.mu.Unlock() and wg.Done()
SweepUnlock(t, s) ==
    /\ pc[t].op = "sweep"
    /\ <<s, "in">> \in pc[t].pend
    /\ Unlock([pc EXCEPT ![t].pend = WgDone(@, s)], s)
    /\ last' = NoCompact
    /\ DataSame

\* shardedMap.Compact / shardedMap.Count: wg.Wait() returns
FanJoin(t) ==
    /\ pc[t].op \in {"sweep", "count"}
    /\ pc[t].pend = {}
    /\ pc' = [pc EXCEPT ![t] = Idle]
    /\ last' = NoCompact
    /\ mu' = mu
    /\ DataSame

\* shardedMap.Count: wg.Add, one goroutine per shard
FanCount(t) ==
    /\ pc[t].op = "idle"
    /\ pc' = [pc EXCEPT ![t] = [op |-> "count", shard |-> 0,
                                 pend |-> {<<s, "run">> : s \in DOMAIN shards}]]
    /\ last' = NoCompact
    /\ mu' = mu
    /\ DataSame

\* A goroutine of shardedMap.Count -> mapShard.Count: s.mu.RLock()
CountRLock(t, s) ==
    /\ pc[t].op = "count"
    /\ <<s, "run">> \in pc[t].pend
    /\ IF CanRead(s)
       THEN /\ mu' = [mu EXCEPT ![s].r = @ \cup {Task(t, s + 1)}]
            /\ pc' = [pc EXCEPT ![t].pend = (@ \ {<<s, "run">>}) \cup {<<s, "in">>}]
       ELSE /\ mu' = mu
            /\ pc' = [pc EXCEPT ![t].pend = (@ \ {<<s, "run">>}) \cup {<<s, "wait">>}]
    /\ last' = NoCompact
    /\ DataSame

\* mapShard.Count: the read of s.count, the deferred s.mu.RUnlock(), wg.Done()
CountRUnlock(t, s) ==
    /\ pc[t].op = "count"
    /\ <<s, "in">> \in pc[t].pend
    /\ mu' = [mu EXCEPT ![s].r = @ \ {Task(t, s + 1)}]
    /\ pc' = [pc EXCEPT ![t].pend = WgDone(@, s)]
    /\ last' = NoCompact
    /\ DataSame

\* Time passes.
LockTick == Tick /\ mu' = mu

\* The steps that start a call.
LockCalls ==
    \/ \E t \in DOMAIN pc, s \in DOMAIN shards : GetRLock(t, s)
    \/ \E t \in DOMAIN pc, s \in DOMAIN shards : WriteLock(t, "set-wait", s)
    \/ \E t \in DOMAIN pc, s \in DOMAIN shards : WriteLock(t, "del-wait", s)
    \/ \E t \in DOMAIN pc : SweepTest(t)
    \/ \E t \in DOMAIN pc : FanCount(t)

\* The steps of the calls in flight.
LockSteps ==
    \/ \E t \in DOMAIN pc : GetRUnlock(t)
    \/ \E t \in DOMAIN pc, id \in cfg.keys, val \in cfg.vals : SetLocked(t, id, val)
    \/ \E t \in DOMAIN pc, id \in cfg.keys : DeleteLocked(t, id)
    \/ \E t \in DOMAIN pc : WriteUnlock(t)
    \/ \E t \in DOMAIN pc : RemoveDone(t)
    \/ \E t \in DOMAIN pc : CompactLocked(t)
    \/ \E t \in DOMAIN pc : SweepStart(t)
    \/ \E t \in DOMAIN pc, s \in DOMAIN shards : SweepLocked(t, s)
    \/ \E t \in DOMAIN pc, s \in DOMAIN shards : SweepUnlock(t, s)
    \/ \E t \in DOMAIN pc, s \in DOMAIN shards : CountRLock(t, s)
    \/ \E t \in DOMAIN pc, s \in DOMAIN shards : CountRUnlock(t, s)
    \/ \E t \in DOMAIN pc : FanJoin(t)

\* Nothing but the map and its locks changes.
LocksOnly == UNCHANGED <<scn, simple, spc, held, calc, bp>>

NextLocks ==
    /\ LockCalls \/ LockSteps \/ LockTick
    /\ LocksOnly

SpecLocks == InitLocks /\ [][NextLocks]_vars

\* A step of thread t that needs no lock to be free: it is taken if the thread
\* is scheduled.
Proceeds(t) ==
    /\ \/ GetRUnlock(t) \/ WriteUnlock(t) \/ RemoveDone(t) \/ SweepStart(t) \/ FanJoin(t)
       \/ \E s \in DOMAIN shards : SweepUnlock(t, s) \/ CountRLock(t, s) \/ CountRUnlock(t, s)
    /\ LocksOnly

\* A Lock call of thread t, or of its goroutine for shard s, returns.
Acquires(t, s) ==
    /\ \/ pc[t].shard = s /\ CompactLocked(t)
       \/ pc[t].shard = s /\ \E id \in cfg.keys : DeleteLocked(t, id)
       \/ pc[t].shard = s /\ \E id \in cfg.keys, val \in cfg.vals : SetLocked(t, id, val)
       \/ SweepLocked(t, s)
    /\ LocksOnly

\* Fair scheduling: a goroutine that can run does run, and a Lock call returns
\* if the lock is free again and again (sync.Mutex hands the lock to a waiter
\* that has waited long, so no writer is overtaken for ever).
FairLocks ==
    /\ \A t \in Threads(CfgLock) : WF_vars(Proceeds(t))
    /\ \A t \in Threads(CfgLock), s \in ShardIds(CfgLock) : SF_vars(Acquires(t, s))

SpecLocksFair == InitLocks /\ [][NextLocks]_vars /\ FairLocks

\* ----------------------------------------------------- shardedMap.Set, noted
\* The calls of Spec, with calc holding the Set call the last step made, if it
\* was one: arg the key, arg2 the value, out 1 if the key had an entry when the
\* call took the lock.
SetNoted(id, val) ==
    [fn |-> "set", arg |-> id, arg2 |-> val, done |-> TRUE,
     out |-> IF MapGet(id).found THEN 1 ELSE 0, out2 |-> 0]

NotedSet(t, id, val) ==
    /\ Set(t, id, val)
    /\ calc' = SetNoted(id, val)
    /\ UNCHANGED <<scn, simple, spc, held, mu, bp>>

AroundSet ==
    /\ OtherCalls
    /\ calc' = NoCalc
    /\ UNCHANGED <<scn, simple, spc, held, mu, bp>>

NextSet ==
    \/ \E t \in DOMAIN pc, id \in cfg.keys, val \in cfg.vals : NotedSet(t, id, val)
    \/ AroundSet

SpecSet == Init /\ [][NextSet]_vars

\* ------------------------------------------------- the peaks of a shard's count
\* The calls of Spec on its one shard, with calc holding the largest value
\* count has had since the last Compact that found count = 0 (out) and since
\* the last Compact that found count = 0 or replaced the table (out2).
PeakNoted ==
    LET n == shards'[0].count
    IN  [fn |-> "peak", arg |-> 0, arg2 |-> 0, done |-> TRUE,
         out |-> IF last'.br = "drain" THEN n ELSE Max(calc.out, n),
         out2 |-> IF last'.br \in {"drain", "shrink"} THEN n ELSE Max(calc.out2, n)]

InitPeak ==
    /\ \E c \in Configs : InitWith(c)
    /\ scn = Unscripted
    /\ simple = ZeroSimple
    /\ spc = [t \in Threads(cfg) |-> "idle"]
    /\ held = {}
    /\ mu = Unlocked(cfg)
    /\ bp = NoBytePool
    /\ calc = [NoCalc EXCEPT !.fn = "peak", !.done = TRUE]

NextPeak ==
    /\ Calls
    /\ calc' = PeakNoted
    /\ UNCHANGED <<scn, simple, spc, held, mu, bp>>

SpecPeak == InitPeak /\ [][NextPeak]_vars

\* ------------------------------------------------------------------ bytePool
\* bp.channel is the buffered channel (a queue of at most bp.size buffers),
\* bp.pool what the overflow sync.Pool holds, bp.out the buffers in the hands of
\* the callers, bp.did the record of the last call.  A buffer is [len, cap, was],
\* was telling how it came about: "alloc" (the allocator), "made" (a caller's
\* make), "put" (given to Put at full length), "short" (given to Put shortened).
RemoveAt(q, i) == SubSeq(q, 1, i - 1) \o SubSeq(q, i + 1, Len(q))

\* The allocator of TestBytePool: make([]byte, width)
Allocate == [len |-> BufWidth, cap |-> BufWidth, was |-> "alloc"]

\* newBytePool(size, allocator)
newBytePool(size) ==
    [size |-> size, channel |-> <<>>, pool |-> <<>>, out |-> <<>>, did |-> NoBufCall]

InitBytePool ==
    /\ InitWith(CfgReal)
    /\ scn = Unscripted
    /\ simple = ZeroSimple
    /\ spc = [t \in Threads(cfg) |-> "idle"]
    /\ held = {}
    /\ mu = Unlocked(cfg)
    /\ calc = NoCalc
    /\ \E size \in 0 .. MaxPoolSize : bp = newBytePool(size)

\* A send on the channel can proceed: the buffer has room.  (No receiver ever
\* waits on the channel: Get receives only inside a select with a default.)
CanSend(p) == Len(p.channel) < p.size

\* bytePool.Get: the possible results
BytePoolGet(p) ==
    IF Len(p.channel) > 0
    THEN {[p EXCEPT !.channel = Tail(@), !.out = Append(@, Head(p.channel)),
                    !.did = [op |-> "get", via |-> "channel", buf |-> Head(p.channel)]]}
    ELSE {[p EXCEPT !.pool = RemoveAt(@, i), !.out = Append(@, p.pool[i]),
                    !.did = [op |-> "get", via |-> "pool", buf |-> p.pool[i]]]
             : i \in 1 .. Len(p.pool)}
         \cup {[p EXCEPT !.out = Append(@, Allocate),
                         !.did = [op |-> "get", via |-> "new", buf |-> Allocate]]}

\* Faulty variant of Resliced: the buffer keeps the length it came with.
ReslicedNot(b) == [b EXCEPT !.was = IF b.len < b.cap THEN "short" ELSE "put"]

\* b = b[:cap(b)] in bytePool.Put
Resliced(b) == [len |-> b.cap, cap |-> b.cap, was |-> IF b.len < b.cap THEN "short" ELSE "put"]

\* sync.Pool.Put on the overflow pool, which may drop what it is given; the
\* model keeps at most MaxOverflow buffers.
OverflowPut(q, b) == IF Len(q) < MaxOverflow THEN Append(q, b) ELSE q

\* Faulty variant of BytePoolPut: the send is made whether there is room or not.
BytePoolPutAlwaysSends(p, i) ==
    LET b == Resliced(p.out[i])
    IN  [p EXCEPT !.out = RemoveAt(@, i), !.channel = Append(@, b),
                  !.did = [op |-> "put", via |-> "channel", buf |-> b]]

\* bytePool.Put of the buffer p.out[i]
BytePoolPut(p, i) ==
    LET b == Resliced(p.out[i])
    IN  IF CanSend(p)
        THEN [p EXCEPT !.out = RemoveAt(@, i), !.channel = Append(@, b),
                       !.did = [op |-> "put", via |-> "channel", buf |-> b]]
        ELSE [p EXCEPT !.out = RemoveAt(@, i), !.pool = OverflowPut(@, b),
                       !.did = [op |-> "put", via |-> "overflow", buf |-> b]]

\* bytePool.NumPooled
NumPooled(p) == Len(p.channel)

BytePoolOnly ==
    UNCHANGED <<cfg, heap, shards, pools, pc, hist, last, sinceCompact, scn,
                simple, spc, held, calc, mu>>

\* A caller calls Get.
BufGet ==
    /\ Len(bp.out) < MaxOut
    /\ \E p \in BytePoolGet(bp) : bp' = p
    /\ BytePoolOnly

\* A caller calls Put with a buffer it holds.
BufPut(i) ==
    /\ i \in 1 .. Len(bp.out)
    /\ bp' = BytePoolPut(bp, i)
    /\ BytePoolOnly

\* A caller makes a buffer of its own: make([]byte, c)[:n]
BufMake(c, n) ==
    /\ Len(bp.out) < MaxOut
    /\ n <= c
    /\ bp' = [bp EXCEPT !.out = Append(@, [len |-> n, cap |-> c, was |-> "made"]),
                         !.did = NoBufCall]
    /\ BytePoolOnly

\* A caller shortens or lengthens a buffer it holds: b = b[:n]
BufReslice(i, n) ==
    /\ i \in 1 .. Len(bp.out)
    /\ n <= bp.out[i].cap
    /\ n # bp.out[i].len
    /\ bp' = [bp EXCEPT !.out[i].len = n, !.did = NoBufCall]
    /\ BytePoolOnly

\* A caller lets go of a buffer it holds.
BufDrop(i) ==
    /\ i \in 1 .. Len(bp.out)
    /\ bp' = [bp EXCEPT !.out = RemoveAt(@, i), !.did = NoBufCall]
    /\ BytePoolOnly

\* The runtime empties the overflow pool.
BufEvict ==
    /\ bp.pool # <<>>
    /\ bp' = [bp EXCEPT !.pool = <<>>, !.did = NoBufCall]
    /\ BytePoolOnly

NextBytePool ==
    \/ BufGet
    \/ \E i \in 1 .. MaxOut : BufPut(i)
    \/ \E c \in 1 .. BufWidth, n \in 0 .. BufWidth : BufMake(c, n)
    \/ \E i \in 1 .. MaxOut, n \in 0 .. BufWidth : BufReslice(i, n)
    \/ \E i \in 1 .. MaxOut : BufDrop(i)
    \/ BufEvict

SpecBytePool == InitBytePool /\ [][NextBytePool]_vars

\* ------------------------------------------------ pure functions, applied
\* The arguments of nextLogBase2 and prevLogBase2: every v up to MaxLogArg,
\* the powers of two below 2^31 with their neighbours, and 2^31 - 1.
LogArgs ==
    (1 .. MaxLogArg) \cup {Pow2(k) + d : k \in 2 .. 30, d \in {-1, 0, 1}}
                     \cup {Pow2(30) + (Pow2(30) - 1)}

\* The keys given to getMapShardKey, in pairs: the small ones and two large ones.
RouteKeys == (0 .. MaxRouteKey) \cup {Pow2(30) + 5, Pow2(30) + (Pow2(30) - 1)}

InitCalc ==
    /\ InitWith(CfgReal)
    /\ scn = Unscripted
    /\ simple = ZeroSimple
    /\ spc = [t \in Threads(cfg) |-> "idle"]
    /\ held = {}
    /\ mu = Unlocked(cfg)
    /\ bp = NoBytePool
    /\ \/ \E v \in LogArgs : calc = [NoCalc EXCEPT !.fn = "log2", !.arg = v]
       \/ \E k1, k2 \in RouteKeys :
             calc = [NoCalc EXCEPT !.fn = "route", !.arg = k1, !.arg2 = k2]

\* nextLogBase2(v) and prevLogBase2(v)
ApplyLog ==
    /\ calc.fn = "log2"
    /\ ~calc.done
    /\ calc' = [calc EXCEPT !.done = TRUE, !.out = nextLogBase2(calc.arg),
                            !.out2 = prevLogBase2(calc.arg)]

\* m.getMapShardKey(k1) and m.getMapShardKey(k2) on one map
ApplyRoute ==
    /\ calc.fn = "route"
    /\ ~calc.done
    /\ calc' = [calc EXCEPT !.done = TRUE, !.out = getMapShardKey(cfg, calc.arg),
                            !.out2 = getMapShardKey(cfg, calc.arg2)]

NextCalc ==
    /\ ApplyLog \/ ApplyRoute
    /\ UNCHANGED <<cfg, heap, shards, pools, pc, hist, last, sinceCompact, scn,
                   simple, spc, held, mu, bp>>

SpecCalc == InitCalc /\ [][NextCalc]_vars

\* ------------------------------------------------- the mapPool called directly
\* Callers that use the mapPool as the shards do and as the tests do: Get a map,
\* store into it, Put it.  A caller does not touch a map it has handed to the
\* pool, and fills a map with the keys 0, 1, 2, ... in turn.
Pooled(po) == UNION {po[b] : b \in DOMAIN po}

\* The record of a call of the mapPool: what became of the map id, in a Get
\* ("pop", "make") or in a Put ("kept", "let go").
PoolCalled(br, id, via) == [br |-> br, shard |-> 0, from |-> id, via |-> via]

\* The lengths asked of Get: 0, every length up to maxSize, and one above.
Lengths(c) == 0 .. (maxMapSizeOf(c) + 1)

InitPoolCalls ==
    /\ InitWith(CfgPool)
    /\ scn = Unscripted
    /\ ShardedOnly

\* m := pool.Get(n)
ClientGet(n) ==
    /\ Cardinality(held) < MaxHeld
    /\ \E r \in PoolGet(cfg, St, n) :
          /\ heap' = r.st.heap
          /\ pools' = r.st.pools
          /\ held' = held \cup {r.id}
          /\ last' = PoolCalled(IF r.id \in DOMAIN heap THEN "pop" ELSE "make", r.id, "get")
    /\ UNCHANGED <<cfg, shards, pc, hist, sinceCompact, scn, simple, spc, calc, mu, bp>>

\* m[k] = v on a map the caller holds
ClientStore(id) ==
    /\ id \in held
    /\ MapLen(heap, id) \in cfg.keys
    /\ heap' = MapStore(heap, id, MapLen(heap, id), 1)
    /\ last' = NoCompact
    /\ UNCHANGED <<cfg, shards, pools, pc, hist, sinceCompact, scn, simple, spc, held, calc, mu, bp>>

\* pool.Put(m): the caller lets go of the map if the pool keeps it.
ClientPut(id) ==
    /\ id \in held
    /\ LET st == PoolPut(cfg, St, id)
       IN  /\ heap' = st.heap
           /\ pools' = st.pools
           /\ held' = held \ Pooled(st.pools)
           /\ last' = PoolCalled(IF id \in Pooled(st.pools) THEN "kept" ELSE "let go",
                                 id, "put")
    /\ UNCHANGED <<cfg, shards, pc, hist, sinceCompact, scn, simple, spc, calc, mu, bp>>

\* The caller forgets a map.
ClientDrop(id) ==
    /\ id \in held
    /\ held' = held \ {id}
    /\ heap' = [i \in DOMAIN heap \cap (Live(shards, pools) \cup held') |-> heap[i]]
    /\ last' = NoCompact
    /\ UNCHANGED <<cfg, shards, pools, pc, hist, sinceCompact, scn, simple, spc, calc, mu, bp>>

NextPoolCalls ==
    \/ \E n \in Lengths(cfg) : ClientGet(n)
    \/ \E id \in DOMAIN heap : ClientStore(id)
    \/ \E id \in DOMAIN heap : ClientPut(id)
    \/ \E id \in DOMAIN heap : ClientDrop(id)
    \/ /\ \E b \in DOMAIN pools, id \in DOMAIN heap : PoolEvict(b, id)
       /\ UNCHANGED <<scn, simple, spc, held, calc, mu, bp>>

SpecPoolCalls == InitPoolCalls /\ [][NextPoolCalls]_vars

\* ------------------------------------------------------------------ simpleMap
\* A configuration c of the shardedMap, completed with the factor of the
\* simpleMap's shrink test and the width of its counters.
WithSimple(c, factor, bits) ==
    [shards |-> c.shards, defaultSize |-> c.defaultSize, maxPower |-> c.maxPower,
     shrinkFactor |-> c.shrinkFactor, keys |-> c.keys, vals |-> c.vals,
     threads |-> c.threads, sweepers |-> c.sweepers,
     simpleFactor |-> factor, intBits |-> bits]

\* The simpleMap as compiled.
CfgSimpleReal == WithSimple(CfgReal, simpleShrinkFactor, int32Bits)

\* A simpleMap under several threads, shrinking at 1/SmallSimpleFactor.
CfgSimple ==
    WithSimple([CfgRace EXCEPT !.keys = 0 .. (SimpleKeys - 1), !.vals = {1}],
               SmallSimpleFactor, int32Bits)

\* A simpleMap whose counters are SmallIntBits wide, so that count times the
\* factor leaves their range while count and count * 2 stay inside it.
CfgNarrow ==
    WithSimple([CfgRace EXCEPT !.keys = 0 .. (NarrowKeys - 1), !.vals = {1}, !.threads = 1],
               SmallSimpleFactor, SmallIntBits)

SimpleConfigs == {CfgSimple, CfgNarrow}

\* The value of x in a signed integer of the given width (two's complement),
\* for x within the 32-bit range.
IntN(bits, x) ==
    IF bits >= int32Bits THEN x
    ELSE LET half == Pow2(bits - 1) IN ((x + half) % (2 * half)) - half

\* a * b in int32, for a >= 0 and 0 <= b < 2^15: the product is formed from
\* 16-bit halves and reduced modulo 2^32.
Mul32(a, b) ==
    LET lo == (a % 65536) * b
        hi == ((lo \div 65536) + (a \div 65536) * b) % 65536
    IN  (IF hi >= 32768 THEN (hi - 65536) * 65536 ELSE hi * 65536) + (lo % 65536)

\* a * b in a signed integer of the given width
MulN(bits, a, b) == IF bits >= int32Bits THEN Mul32(a, b) ELSE IntN(bits, a * b)

\* make(map[K]V, hint)
SimpleMake(hint) == [present |-> TRUE, cap |-> Max(hint, 0), kv |-> EmptyKV]

\* simpleMap.Init
SimpleInit(c) ==
    [entries |-> SimpleMake(c.defaultSize), count |-> 0, countHigh |-> 0]

\* simpleMap.Get: the value only; the zero value is 0 (nil).
SimpleGet(m, id) == IF id \in DOMAIN m.entries.kv THEN m.entries.kv[id] ELSE 0

\* Faulty variant of SimpleSet: an overwrite keeps the old value.
SimpleSetKeepsOld(c, m, id, val) ==
    LET e == IF m.entries.present THEN m.entries ELSE SimpleMake(c.defaultSize)
        exists == id \in DOMAIN e.kv
        kv == [x \in DOMAIN e.kv \cup {id} |-> IF x \in DOMAIN e.kv THEN e.kv[x] ELSE val]
        cnt == IntN(c.intBits, (IF exists THEN IntN(c.intBits, m.count - 1)
                                          ELSE m.count) + 1)
    IN  [entries |-> [present |-> TRUE, cap |-> Max(e.cap, Cardinality(DOMAIN kv)),
                      kv |-> kv],
         count |-> cnt,
         countHigh |-> IF cnt > m.countHigh THEN cnt ELSE m.countHigh]

\* simpleMap.Set
SimpleSet(c, m, id, val) ==
    LET e == IF m.entries.present THEN m.entries ELSE SimpleMake(c.defaultSize)
        exists == id \in DOMAIN e.kv
        kv == [x \in DOMAIN e.kv \cup {id} |-> IF x = id THEN val ELSE e.kv[x]]
        cnt == IntN(c.intBits, (IF exists THEN IntN(c.intBits, m.count - 1)
                                          ELSE m.count) + 1)
    IN  [entries |-> [present |-> TRUE, cap |-> Max(e.cap, Cardinality(DOMAIN kv)),
                      kv |-> kv],
         count |-> cnt,
         countHigh |-> IF cnt > m.countHigh THEN cnt ELSE m.countHigh]

\* The first critical section of simpleMap.Delete: whether the key was there.
SimpleDeleteHits(m, id) == m.entries.present /\ id \in DOMAIN m.entries.kv

\* Faulty variant of SimpleRemove: the count is left as it was.
SimpleRemoveKeepsCount(c, m, id) ==
    [m EXCEPT !.entries.kv = [x \in DOMAIN m.entries.kv \ {id} |-> m.entries.kv[x]]]

\* The first critical section of simpleMap.Delete when the key is there.
SimpleRemove(c, m, id) ==
    [m EXCEPT !.entries.kv = [x \in DOMAIN m.entries.kv \ {id} |-> m.entries.kv[x]],
              !.count = IntN(c.intBits, m.count - 1)]

\* Faulty variant of SimpleKeeps: a count at exactly 1/simpleFactor of the
\* high-water mark does not keep the table.
SimpleKeepsAbove(c, m) == MulN(c.intBits, m.count, c.simpleFactor) > m.countHigh

\* The test of simpleMap.Compact that keeps the table, for count # 0.
SimpleKeeps(c, m) == MulN(c.intBits, m.count, c.simpleFactor) >= m.countHigh

\* Faulty variant of SimpleCompact: at count = 0 the table is given up, as a
\* shard's is.
SimpleCompactLikeShard(c, m) ==
    IF m.count = 0
    THEN [m |-> [entries |-> NoMap, count |-> 0, countHigh |-> 0], br |-> "drain"]
    ELSE IF SimpleKeeps(c, m) THEN [m |-> m, br |-> "keep"]
    ELSE LET newMap == [SimpleMake(MulN(c.intBits, m.count, 2)) EXCEPT
                           !.kv = m.entries.kv,
                           !.cap = Max(@, Cardinality(DOMAIN m.entries.kv))]
             n == IntN(c.intBits, Cardinality(DOMAIN newMap.kv))
         IN  [m |-> [entries |-> newMap, count |-> n, countHigh |-> n], br |-> "shrink"]

\* simpleMap.Compact: the result [m, br], br the branch taken.
SimpleCompact(c, m) ==
    IF m.count = 0
    THEN [m |-> [entries |-> SimpleMake(c.defaultSize), count |-> 0, countHigh |-> 0],
          br |-> "drain"]
    ELSE IF SimpleKeeps(c, m) THEN [m |-> m, br |-> "keep"]
    ELSE LET newMap == [SimpleMake(MulN(c.intBits, m.count, 2)) EXCEPT
                           !.kv = m.entries.kv,
                           !.cap = Max(@, Cardinality(DOMAIN m.entries.kv))]
             n == IntN(c.intBits, Cardinality(DOMAIN newMap.kv))
         IN  [m |-> [entries |-> newMap, count |-> n, countHigh |-> n], br |-> "shrink"]

\* The record of a simpleMap.Compact call that took branch br.
SimpleCompacted(br, via) == [br |-> br, shard |-> 0, from |-> 0, via |-> via]

\* Nothing but the simpleMap (and the record of its Compact calls) changes.
SimpleOnly ==
    UNCHANGED <<cfg, heap, shards, pools, pc, hist, sinceCompact, scn, held, calc, mu, bp>>

InitSimple ==
    /\ \E c \in SimpleConfigs : InitWith(c)
    /\ scn = Unscripted
    /\ simple = SimpleInit(cfg)
    /\ spc = [t \in Threads(cfg) |-> "idle"]
    /\ held = {}
    /\ mu = Unlocked(cfg)
    /\ bp = NoBytePool
    /\ calc = NoCalc

\* simpleMap.Get: a read under the read lock; nothing is written.
DoSimpleGet(t, id) ==
    /\ spc[t] = "idle"
    /\ SimpleGet(simple, id) \in cfg.vals \cup {0}
    /\ last' = NoCompact
    /\ UNCHANGED <<simple, spc, mu, bp>>

DoSimpleSet(t, id, val) ==
    /\ spc[t] = "idle"
    /\ simple' = SimpleSet(cfg, simple, id, val)
    /\ last' = NoCompact
    /\ UNCHANGED spc

\* simpleMap.Delete, up to its first Unlock
DoSimpleDelete(t, id) ==
    /\ spc[t] = "idle"
    /\ IF SimpleDeleteHits(simple, id)
       THEN /\ simple' = SimpleRemove(cfg, simple, id)
            /\ spc' = [spc EXCEPT ![t] = "delete"]
       ELSE UNCHANGED <<simple, spc, mu, bp>>
    /\ last' = NoCompact

\* The m.Compact() call that ends simpleMap.Delete
DoSimpleDeleteCompact(t) ==
    /\ spc[t] = "delete"
    /\ LET r == SimpleCompact(cfg, simple)
       IN  simple' = r.m /\ last' = SimpleCompacted(r.br, "simple delete")
    /\ spc' = [spc EXCEPT ![t] = "idle"]

\* simpleMap.Compact called directly
DoSimpleCompact(t) ==
    /\ spc[t] = "idle"
    /\ LET r == SimpleCompact(cfg, simple)
       IN  simple' = r.m /\ last' = SimpleCompacted(r.br, "simple")
    /\ UNCHANGED spc

SimpleCalls ==
    \/ \E t \in DOMAIN spc, id \in cfg.keys : DoSimpleGet(t, id)
    \/ \E t \in DOMAIN spc, id \in cfg.keys, val \in cfg.vals : DoSimpleSet(t, id, val)
    \/ \E t \in DOMAIN spc, id \in cfg.keys : DoSimpleDelete(t, id)
    \/ \E t \in DOMAIN spc : DoSimpleDeleteCompact(t)
    \/ \E t \in DOMAIN spc : DoSimpleCompact(t)

NextSimple == SimpleCalls /\ SimpleOnly

SpecSimple == InitSimple /\ [][NextSimple]_vars

\* A simpleMap as it is declared (the zero value of the struct, Init not
\* called) or as Init leaves it.
InitSimpleAny ==
    /\ \E c \in SimpleConfigs : InitWith(c)
    /\ scn = Unscripted
    /\ simple \in {ZeroSimple, SimpleInit(cfg)}
    /\ spc = [t \in Threads(cfg) |-> "idle"]
    /\ held = {}
    /\ mu = Unlocked(cfg)
    /\ bp = NoBytePool
    /\ calc = NoCalc

SpecSimpleAny == InitSimpleAny /\ [][NextSimple]_vars

\* ------------------------------------------- both maps under the same calls
\* One caller drives a shardedMap and a simpleMap with the same sequence of
\* Set, Delete and Compact calls; the values include nil (0).  The keys: one
\* per shard, and more that route to shard 0.
CfgBoth ==
    WithSimple([shards |-> Pow2(SmallShardBits), defaultSize |-> 1,
                maxPower |-> SmallMapPower, shrinkFactor |-> SmallShrinkFactor,
                keys |-> {k \in 0 .. BothKeys :
                             k < Pow2(SmallShardBits) \/ k % Pow2(SmallShardBits) = 0},
                vals |-> 0 .. NumVals,
                threads |-> 1, sweepers |-> 1],
               SmallSimpleFactor, int32Bits)

InitBoth ==
    /\ InitWith(CfgBoth)
    /\ scn = Unscripted
    /\ simple = SimpleInit(cfg)
    /\ spc = [t \in Threads(cfg) |-> "idle"]
    /\ held = {}
    /\ mu = Unlocked(cfg)
    /\ bp = NoBytePool
    /\ calc = NoCalc

\* Set on both maps
BothSet(id, val) ==
    /\ Set(1, id, val)
    /\ spc[1] = "idle"
    /\ simple' = SimpleSet(cfg, simple, id, val)
    /\ UNCHANGED <<spc, scn, held, calc, mu, bp>>

\* Delete on both maps, each up to its first Unlock
BothDelete(id) ==
    /\ Delete(1, id)
    /\ spc[1] = "idle"
    /\ IF SimpleDeleteHits(simple, id)
       THEN /\ simple' = SimpleRemove(cfg, simple, id)
            /\ spc' = [spc EXCEPT ![1] = "delete"]
       ELSE UNCHANGED <<simple, spc, mu, bp>>
    /\ UNCHANGED <<scn, held, calc, mu, bp>>

\* Compact on both maps: the cool-down test of shardedMap.Compact, and
\* simpleMap.Compact
BothCompact ==
    /\ MapCompact(1)
    /\ spc[1] = "idle"
    /\ simple' = SimpleCompact(cfg, simple).m
    /\ UNCHANGED <<spc, scn, held, calc, mu, bp>>

\* The rest of a call on the shardedMap, and what happens around it.
ShardedRest ==
    /\ \/ DeleteCompact(1)
       \/ MapCompactStart(1)
       \/ \E s \in DOMAIN shards : SweepShard(1, s)
       \/ SweepJoin(1)
       \/ Tick
       \/ \E b \in DOMAIN pools, id \in DOMAIN heap : PoolEvict(b, id)
    /\ UNCHANGED <<simple, spc, scn, held, calc, mu, bp>>

\* The rest of a Delete on the simpleMap.
SimpleRest == DoSimpleDeleteCompact(1) /\ SimpleOnly

NextBoth ==
    \/ \E id \in cfg.keys, val \in cfg.vals : BothSet(id, val)
    \/ \E id \in cfg.keys : BothDelete(id)
    \/ BothCompact
    \/ ShardedRest
    \/ SimpleRest

SpecBoth == InitBoth /\ [][NextBoth]_vars

\* The scripted workload on the simpleMap as compiled, one thread: Set of the
\* 1000 keys, then Delete of the same keys one at a time.
InitSimpleScript ==
    /\ InitWith(CfgSimpleReal)
    /\ scn = [phase |-> "fill", n |-> 0]
    /\ simple = SimpleInit(cfg)
    /\ spc = [t \in Threads(cfg) |-> "idle"]
    /\ held = {}
    /\ mu = Unlocked(cfg)
    /\ bp = NoBytePool
    /\ calc = NoCalc

SimpleScriptSet ==
    /\ scn.phase = "fill"
    /\ DoSimpleSet(1, ScriptKey(scn.n), 1)
    /\ scn' = IF scn.n + 1 = Cardinality(ScriptKeys)
              THEN [phase |-> "drain", n |-> 0]
              ELSE [phase |-> "fill", n |-> scn.n + 1]

SimpleScriptDelete ==
    /\ scn.phase = "drain"
    /\ scn.n < Cardinality(ScriptKeys)
    /\ DoSimpleDelete(1, ScriptKey(scn.n))
    /\ scn' = [phase |-> "drain", n |-> scn.n + 1]

SimpleScriptDeleteCompact ==
    /\ scn.phase = "drain"
    /\ DoSimpleDeleteCompact(1)
    /\ UNCHANGED <<scn, mu, bp>>

NextSimpleScript ==
    /\ SimpleScriptSet \/ SimpleScriptDelete \/ SimpleScriptDeleteCompact
    /\ UNCHANGED <<cfg, heap, shards, pools, pc, hist, sinceCompact, held, calc, mu, bp>>

SpecSimpleScript == InitSimpleScript /\ [][NextSimpleScript]_vars

\* ------------------------------------------------------------------ properties
\* What Get(k) has to return according to the history of k.
Expected(k) ==
    IF hist[k].set THEN [val |-> hist[k].val, found |-> TRUE]
                   ELSE [val |-> 0, found |-> FALSE]

\* The keys stored in shard s (none when its table is nil).
KeysOf(s) == IF shards[s].entries = 0 THEN {} ELSE DOMAIN heap[shards[s].entries].kv

\* The keys of shard s whose most recent operation was Set.
SetKeysOf(s) == {k \in cfg.keys : getMapShardKey(cfg, k) = s /\ hist[k].set}

\* The last step was a mapShard.Compact call on shard s.
JustCompacted(s) == last.br # "none" /\ last.shard = s

\* The step is a mapShard.Compact call on shard s.
CompactStep(s) == last'.br # "none" /\ last'.shard = s

\* C1: in every state reached by any interleaving of Set, Delete, Get and
\* Compact (of a shard, or of the whole map), Get(k) returns (v, true) if the
\* last mutation of k that took effect was Set(k, v), and (nil, false) if k was
\* never set or was last deleted.
C1_GetReturnsLastSet == \A k \in cfg.keys : MapGet(k) = Expected(k)

\* A shard has just been shrunk, one of its keys is still found with its value
\* and another one is not found.
C1_Witness ==
    /\ last.br = "shrink"
    /\ \E k1, k2 \in cfg.keys :
          /\ getMapShardKey(cfg, k1) = last.shard
          /\ getMapShardKey(cfg, k2) = last.shard
          /\ hist[k1].set /\ MapGet(k1).found /\ MapGet(k1).val = hist[k1].val
          /\ ~hist[k2].set /\ ~MapGet(k2).found

\* C2: at every release of a shard's lock, count is the number of keys of the
\* shard whose most recent operation was Set, which is the number of entries of
\* its table (0 when the table is nil), and count is not negative.
C2_CountIsLiveKeys ==
    \A s \in DOMAIN shards :
        /\ shards[s].count = Cardinality(SetKeysOf(s))
        /\ shards[s].count = Cardinality(KeysOf(s))
        /\ shards[s].count >= 0

\* A shard that holds keys and has lost some (count below the high-water mark).
C2_Witness ==
    \E s \in DOMAIN shards :
        /\ shards[s].count >= 1
        /\ shards[s].count < shards[s].countHigh
        /\ \E k \in cfg.keys : getMapShardKey(cfg, k) = s /\ ~hist[k].set

\* C3: with several threads on one shard, every state at a lock release has
\* 0 <= count <= countHigh, and right after a full drain both are 0.
C3_CountWithinHigh ==
    \A s \in DOMAIN shards :
        /\ 0 <= shards[s].count
        /\ shards[s].count <= shards[s].countHigh
        /\ (JustCompacted(s) /\ last.br = "drain") =>
               (shards[s].count = 0 /\ shards[s].countHigh = 0)

\* Two threads are both between the two critical sections of Delete on a
\* shard whose count they brought to 0 under a high-water mark of at least 2.
C3_Witness ==
    /\ cfg.threads >= 2
    /\ \A t \in DOMAIN pc : pc[t].op = "delete"
    /\ \E s \in DOMAIN shards : shards[s].count = 0 /\ shards[s].countHigh >= 2

\* C4: the Compact step of a Delete that finds count = 0 leaves the shard's
\* table nil with count = countHigh = 0; Get on a shard without a table reports
\* not-found, and a Set on a shard without a table installs one.
C4_DrainReleasesTable ==
    [][ /\ \A t \in DOMAIN pc :
              (pc[t].op = "delete" /\ pc'[t].op = "idle"
                 /\ shards[pc[t].shard].count = 0)
              => shards'[pc[t].shard] = NilShard
        /\ \A k \in cfg.keys :
              shards[getMapShardKey(cfg, k)].entries = 0 => ~MapGet(k).found
        /\ \A k \in cfg.keys :
              (shards[getMapShardKey(cfg, k)].entries = 0 /\ hist'[k].set)
              => (shards'[getMapShardKey(cfg, k)].entries # 0 /\ MapGet(k)'.found)
      ]_vars

\* The Compact step of a Delete has just released a table that was installed.
C4_Witness ==
    /\ last.br = "drain"
    /\ last.via = "delete"
    /\ last.from # 0
    /\ shards[last.shard] = NilShard

\* C5: when Compact runs at count = 0 with a table installed, that table is
\* held in a bucket of the pool after the call.
C5_DrainedTablePooled ==
    (last.br = "drain" /\ last.from # 0) =>
        \E b \in DOMAIN pools : last.from \in pools[b]

\* The allocated capacity of the table of shard s (0 when it is nil).
CapOf(s) == IF shards[s].entries = 0 THEN 0 ELSE heap[shards[s].entries].cap

\* The step installs another table in shard s.
Replaced(s) == shards'[s].entries # shards[s].entries

\* count <= maxSize and count * shrinkFactor < countHigh, in shard s
BelowThreshold(s) ==
    /\ shards[s].count <= maxMapSizeOf(cfg)
    /\ shards[s].count * cfg.shrinkFactor < shards[s].countHigh

\* The step leaves every shard, every map object and every bucket as it was.
NothingMoved == shards' = shards /\ heap' = heap /\ pools' = pools

\* C6 as stated: Compact with count > 0 replaces the table, by one of smaller
\* capacity, exactly when count <= maxSize and count * shrinkFactor < countHigh;
\* with count * shrinkFactor >= countHigh it changes nothing; and the Compact of
\* a Delete that leaves 0 < count * shrinkFactor < countHigh lowers countHigh.
C6_Original ==
    [][ \A s \in DOMAIN shards : (CompactStep(s) /\ shards[s].count > 0) =>
          /\ Replaced(s) <=> BelowThreshold(s)
          /\ Replaced(s) => CapOf(s)' < CapOf(s)
          /\ shards[s].count * cfg.shrinkFactor >= shards[s].countHigh => NothingMoved
          /\ (last'.via = "delete"
                /\ shards[s].count * cfg.shrinkFactor < shards[s].countHigh)
             => shards'[s].countHigh < shards[s].countHigh
      ]_vars

\* C6 (amended): Compact with count > 0 replaces the table exactly when
\* count <= maxSize and count * shrinkFactor < countHigh; with
\* count * shrinkFactor >= countHigh it changes nothing; the first critical
\* section of Delete leaves countHigh as it is, and the Compact of a Delete that
\* finds 0 < count * shrinkFactor < countHigh lowers countHigh if
\* count <= maxSize and leaves it unchanged if count > maxSize.
C6_ShrinkCondition ==
    [][ /\ \A s \in DOMAIN shards : (CompactStep(s) /\ shards[s].count > 0) =>
              /\ Replaced(s) <=> BelowThreshold(s)
              /\ shards[s].count * cfg.shrinkFactor >= shards[s].countHigh
                 => NothingMoved
              /\ (last'.via = "delete" /\ BelowThreshold(s))
                 => shards'[s].countHigh < shards[s].countHigh
              /\ shards[s].count > maxMapSizeOf(cfg)
                 => shards'[s].countHigh = shards[s].countHigh
        /\ \A t \in DOMAIN pc : (pc[t].op = "idle" /\ pc'[t].op = "delete") =>
              shards'[pc'[t].shard].countHigh = shards[pc'[t].shard].countHigh
      ]_vars

\* The Compact of a Delete has just replaced the table of its shard.
C6_Witness ==
    /\ last.br = "shrink"
    /\ last.via = "delete"
    /\ last.from # 0
    /\ shards[last.shard].entries # last.from
    /\ shards[last.shard].count > 0

\* C7: a Compact called while count > maxSize changes no shard, no map object
\* and no bucket, whatever countHigh is.
C7_LargeShardUntouched ==
    [][ \A s \in DOMAIN shards :
          (CompactStep(s) /\ shards[s].count > maxMapSizeOf(cfg)) => NothingMoved
      ]_vars

\* Compact has just returned on a shard whose count is above maxSize and whose
\* high-water mark is more than shrinkFactor times its count.
C7_Witness ==
    /\ last.br = "keep"
    /\ shards[last.shard].count > maxMapSizeOf(cfg)
    /\ shards[last.shard].count * cfg.shrinkFactor < shards[last.shard].countHigh

\* C8: a Compact call leaves what Get returns for every key, and count, as they
\* were; when it shrinks, the new table holds exactly the entries the old one
\* held, and the old one is empty if the pool kept it.
C8_CompactKeepsMapping ==
    [][ \A s \in DOMAIN shards : CompactStep(s) =>
          /\ \A k \in cfg.keys : MapGet(k)' = MapGet(k)
          /\ shards'[s].count = shards[s].count
          /\ last'.br = "shrink" =>
                /\ heap'[shards'[s].entries].kv = heap[shards[s].entries].kv
                /\ \A b \in DOMAIN pools : shards[s].entries \in pools'[b] =>
                       heap'[shards[s].entries].kv = EmptyKV
      ]_vars

\* A shrink has just moved live entries to a new table and pooled the old one.
C8_Witness ==
    /\ last.br = "shrink"
    /\ KeysOf(last.shard) # {}
    /\ \E b \in DOMAIN pools : last.from \in pools[b]

\* C9 as stated: after a shrinking Compact countHigh is the capacity of the
\* newly installed table.
C9_Original ==
    last.br = "shrink" => shards[last.shard].countHigh = CapOf(last.shard)

\* C9 (amended): after a shrinking Compact countHigh is the number of entries
\* of the newly installed table, which is count.
C9_HighIsLength ==
    last.br = "shrink" =>
        /\ shards[last.shard].countHigh = Cardinality(KeysOf(last.shard))
        /\ shards[last.shard].countHigh = shards[last.shard].count

\* A shrink has just installed a table whose capacity exceeds countHigh.
C9_Witness ==
    /\ last.br = "shrink"
    /\ shards[last.shard].countHigh >= 1
    /\ shards[last.shard].countHigh < CapOf(last.shard)

\* The scripted workload has done its Sets and the Compact of a Delete has
\* just returned.
AfterScriptedDelete == scn.phase = "drain" /\ last.via = "delete"

\* C10 as stated: after Set of 1000 keys count = countHigh = 1000, and the
\* Compact of the Delete that follows count = 100 shrinks the table to a
\* capacity of about 200 and sets countHigh to about 200.
C10_Original ==
    /\ (scn.phase = "drain" /\ scn.n = 0) =>
           (shards[0].count = 1000 /\ shards[0].countHigh = 1000)
    /\ (AfterScriptedDelete /\ shards[0].count = 99) =>
           /\ last.br = "shrink"
           /\ CapOf(0) \in 150 .. 256
           /\ shards[0].countHigh \in 150 .. 256

\* C10 (amended): after Set of 1000 keys count = countHigh = 1000; each Delete
\* down to count = 125 leaves the table and countHigh = 1000; the Compact of the
\* Delete that brings count to 124 shrinks (124 * 8 = 992 < 1000) to a table of
\* capacity 256 and sets countHigh to 124; from there down to count = 99,
\* the Delete after count = 100 included, nothing shrinks and countHigh is 124.
C10_ScriptedShrink ==
    /\ (scn.phase = "drain" /\ scn.n = 0) =>
           (shards[0].count = 1000 /\ shards[0].countHigh = 1000)
    /\ AfterScriptedDelete =>
           /\ shards[0].count >= 125 =>
                  (last.br = "keep" /\ shards[0].countHigh = 1000)
           /\ shards[0].count = 124 =>
                  (last.br = "shrink" /\ shards[0].countHigh = 124 /\ CapOf(0) = 256)
           /\ shards[0].count \in 99 .. 123 =>
                  (last.br = "keep" /\ shards[0].countHigh = 124)

\* The Delete that brought count to 124 has just shrunk the table.
C10_Witness ==
    /\ AfterScriptedDelete
    /\ last.br = "shrink"
    /\ shards[0].count = 124

\* The scripted workload on the simpleMap has done its Sets and no Delete is
\* between its two critical sections.
SimpleScriptAtRest == scn.phase = "drain" /\ spc[1] = "idle"

\* C11 as stated: on the simpleMap, after Set of 1000 keys and Deletes one at
\* a time, nothing has shrunk when count is 100, and the Compact of the Delete
\* that brings count to 5 shrinks to a table of capacity about 10.
C11_Original ==
    /\ (SimpleScriptAtRest /\ simple.count = 100) =>
           (simple.countHigh = 1000 /\ simple.entries.cap >= 1000)
    /\ (SimpleScriptAtRest /\ simple.count = 6 /\ scn.n > 0) =>
           (simple.countHigh = 1000 /\ simple.entries.cap >= 1000)
    /\ (SimpleScriptAtRest /\ simple.count = 5 /\ scn.n > 0) =>
           (simple.countHigh = 5 /\ simple.entries.cap \in 8 .. 12)

\* C11 (amended): on the simpleMap, after Set of 1000 keys count = countHigh =
\* 1000; every Delete down to count = 10 leaves the table and countHigh = 1000
\* (so nothing has shrunk at count = 100); the Compact of the Delete that brings
\* count to 9 shrinks (9 * 100 = 900 < 1000) to a table made for 18 entries and
\* sets countHigh to 9; from there down to count = 1, count = 5 included,
\* nothing shrinks; the last Delete installs a fresh table of the default size.
C11_SimpleScriptedShrink ==
    /\ (scn.phase = "drain" /\ scn.n = 0) =>
           (simple.count = 1000 /\ simple.countHigh = 1000)
    /\ (SimpleScriptAtRest /\ scn.n > 0) =>
           /\ simple.count >= 10 =>
                  (simple.countHigh = 1000 /\ simple.entries.cap = 1000)
           /\ simple.count \in 1 .. 9 =>
                  (simple.countHigh = 9 /\ simple.entries.cap = 18)
           /\ simple.count = 0 =>
                  (simple.countHigh = 0 /\ simple.entries.cap = defaultMapSize)

\* The Delete that brought count to 9 has just shrunk the table.
C11_Witness ==
    /\ SimpleScriptAtRest
    /\ simple.count = 9
    /\ simple.countHigh = 9
    /\ simple.entries.cap = 18

\* The step is a simpleMap.Compact call.
SimpleCompactStep == last'.via \in {"simple", "simple delete"}

\* C12: a Compact of the simpleMap with count > 0 replaces the table, by a
\* smaller one with the same entries, exactly when count * factor < countHigh
\* (as numbers, whatever the size of count), and otherwise changes nothing;
\* no map object of the pool's heap and no bucket changes.
C12_SimpleShrinkCondition ==
    [][ (SimpleCompactStep /\ simple.count > 0) =>
          /\ last'.br = "shrink" <=> simple.count * cfg.simpleFactor < simple.countHigh
          /\ last'.br = "shrink" =>
                /\ simple'.entries.cap < simple.entries.cap
                /\ simple'.entries.kv = simple.entries.kv
          /\ last'.br # "shrink" => simple' = simple
          /\ heap' = heap /\ pools' = pools
      ]_vars

CeilLog2(n) == CHOOSE e \in 0 .. 30 : Pow2(e) >= n /\ \A d \in 0 .. (e - 1) : Pow2(d) < n

FloorLog2(n) == CHOOSE e \in 0 .. 30 : Pow2(e) <= n /\ n < Pow2(e + 1)

\* Every map object that existed before the step is as it was.
OldMapsKept == \A i \in DOMAIN heap : i \in DOMAIN heap' /\ heap'[i] = heap[i]

\* What a step that is pool.Get(n) does, with popFirst telling whether a
\* non-empty bucket has to hand out one of its maps.
GetDoes(n, popFirst) ==
    LET len == IF n = 0 THEN cfg.defaultSize ELSE n
        idx == CeilLog2(len)
    IN  \E m \in held' :
          /\ held' \ held = {m}
          /\ OldMapsKept
          /\ IF len > maxMapSizeOf(cfg) \/ idx \notin DOMAIN pools
             THEN m \notin DOMAIN heap /\ heap'[m].cap = len /\ pools' = pools
             ELSE /\ \/ m \in pools[idx] /\ pools' = [pools EXCEPT ![idx] = @ \ {m}]
                     \/ m \notin DOMAIN heap /\ heap'[m].cap = Pow2(idx) /\ pools' = pools
                  /\ (popFirst /\ pools[idx] # {}) => m \in pools[idx]

\* C14 as stated: Get(n) takes n = 0 as defaultSize; above maxSize, or with
\* ceil(log2(n)) above the last bucket index, it returns a fresh map and no bucket
\* changes; else it pops a map from bucket idx when that bucket is not empty
\* and makes a map of capacity 2^idx when it is empty; no other bucket changes.
C14_Original == [][ \A n \in Lengths(cfg) : ClientGet(n) => GetDoes(n, TRUE) ]_vars

\* C14 (amended): as stated, except that a bucket that is not empty may also
\* hand out nothing, in which case Get makes a map of capacity 2^idx and no
\* bucket changes.
C14_GetByClass == [][ \A n \in Lengths(cfg) : ClientGet(n) => GetDoes(n, FALSE) ]_vars

\* Get has just popped a map from a bucket.
C14_Witness ==
    /\ last.via = "get"
    /\ last.br = "pop"
    /\ last.from \in held
    /\ last.from \notin Pooled(pools)

\* Put has cleared map id and handed it to bucket b, which has kept it or, being
\* a sync.Pool, dropped it; no other bucket has changed.
PutFiles(id, b) ==
    /\ heap'[id] = [heap[id] EXCEPT !.kv = EmptyKV]
    /\ b \in DOMAIN pools
    /\ pools' = pools \/ pools' = [pools EXCEPT ![b] = @ \cup {id}]

\* Put has left map id and every bucket as they were.
PutDiscards(id) == heap'[id] = heap[id] /\ pools' = pools

C16_GetNeverFails ==
    /\ \A id \in Pooled(pools) : heap[id].kv = EmptyKV
    /\ \A n \in Lengths(cfg) :
          /\ PoolGet(cfg, St, n) # {}
          /\ \A r \in PoolGet(cfg, St, n) :
                r.id \in DOMAIN r.st.heap /\ r.st.heap[r.id].kv = EmptyKV
    /\ last.via = "get" => (last.from \in held /\ heap[last.from].kv = EmptyKV)

\* Get has just handed out a recycled map that once held three entries, while
\* another caller holds a map with entries.
C16_Witness ==
    /\ last.via = "get"
    /\ last.br = "pop"
    /\ heap[last.from].cap >= 3
    /\ heap[last.from].kv = EmptyKV
    /\ \E id \in held : heap[id].kv # EmptyKV

\* 2^e >= v and 2^e <= v for 0 < v < 2^31, without forming 2^31.
PowAtLeast(e, v) == e >= 31 \/ Pow2(e) >= v

PowAtMost(e, v) == e <= 30 /\ Pow2(e) <= v

\* nextLogBase2(v) = next and prevLogBase2(v) = prev have been computed.
Logs(v, next, prev) ==
    calc.fn = "log2" /\ calc.done /\ calc.arg = v /\ calc.out = next /\ calc.out2 = prev

\* C17: nextLogBase2(v) is the least e with 2^e >= v and prevLogBase2(v) the
\* greatest e with 2^e <= v; they are equal when v is a power of two and
\* differ by one otherwise; next: 1->0, 3->2, 4->2, 9->4, 1024->10;
\* prev: 3->1, 9->3, 15->3, 16->4.
C17_LogBase2 ==
    (calc.fn = "log2" /\ calc.done) =>
        LET v == calc.arg
            next == calc.out
            prev == calc.out2
        IN  /\ PowAtLeast(next, v) /\ (next = 0 \/ ~PowAtLeast(next - 1, v))
            /\ PowAtMost(prev, v) /\ ~PowAtMost(prev + 1, v)
            /\ prev = IF PowAtMost(next, v) THEN next ELSE next - 1
            /\ v = 1 => next = 0
            /\ v = 3 => (next = 2 /\ prev = 1)
            /\ v = 4 => next = 2
            /\ v = 9 => (next = 4 /\ prev = 3)
            /\ v = 15 => prev = 3
            /\ v = 16 => prev = 4
            /\ v = 1024 => next = 10

\* Both logarithms of 9, of 1024 or of 2^30 + 1 have been computed.
C17_Witness == Logs(9, 4, 3) \/ Logs(1024, 10, 10) \/ Logs(Pow2(30) + 1, 31, 30)

\* C18: the shard of a uint64 key is key & (shardCount - 1): it lies in
\* 0 .. shardCount - 1; two keys get the same shard exactly when they are
\* congruent modulo shardCount (5 and 37 collide, 5 and 6, and 1 and 2, do not,
\* with 32 shards); the same key gets the same shard.
C18_Routing ==
    (calc.fn = "route" /\ calc.done) =>
        /\ calc.out \in DOMAIN shards /\ calc.out2 \in DOMAIN shards
        /\ calc.out = calc.arg % cfg.shards
        /\ calc.out = calc.out2 <=> (calc.arg - calc.arg2) % cfg.shards = 0
        /\ calc.arg = calc.arg2 => calc.out = calc.out2
        /\ (cfg.shards = 32 /\ calc.arg = 5 /\ calc.arg2 = 37) => calc.out = calc.out2
        /\ (cfg.shards = 32 /\ calc.arg = 5 /\ calc.arg2 = 6) => calc.out # calc.out2
        /\ (cfg.shards = 32 /\ calc.arg = 1 /\ calc.arg2 = 2) => calc.out # calc.out2

\* The shards of the keys 5 and 37 have been computed, and are the same shard 5.
C18_Witness ==
    /\ calc.fn = "route" /\ calc.done
    /\ calc.arg = 5 /\ calc.arg2 = 37
    /\ calc.out = 5 /\ calc.out2 = 5

\* The shards whose table, count or countHigh the step changes.
ChangedShards ==
    {s \in DOMAIN shards :
        \/ shards'[s] # shards[s]
        \/ /\ shards[s].entries # 0
           /\ \/ shards[s].entries \notin DOMAIN heap'
              \/ heap'[shards[s].entries] # heap[shards[s].entries]}

\* C19: a Set or Delete that takes effect on key k changes the table, count
\* and countHigh of no shard other than shard k mod shardCount, and the
\* Compact step that ends the Delete is run on that shard and changes no other;
\* a Get, a Set that stores the value already there and a Delete of an absent
\* key change no shard at all.
C19_OneShardPerKey ==
    [][ /\ \A k \in cfg.keys :
              hist'[k] # hist[k] =>
                 /\ ChangedShards \subseteq {k % cfg.shards}
                 /\ \A t \in DOMAIN pc :
                       (pc[t].op = "idle" /\ pc'[t].op = "delete") =>
                           pc'[t].shard = k % cfg.shards
        /\ \A t \in DOMAIN pc :
              (pc[t].op = "delete" /\ pc'[t].op = "idle") =>
                  ChangedShards \subseteq {pc[t].shard}
        /\ (hist' = hist /\ last'.br = "none") => ChangedShards = {}
      ]_vars

\* A Delete has just shrunk shard 0 while shard 1 holds a key, and a thread is
\* between the two critical sections of a Delete on shard 1.
C19_Witness ==
    /\ Cardinality(DOMAIN shards) >= 2
    /\ last.br = "shrink" /\ last.via = "delete" /\ last.shard = 0
    /\ shards[1].entries # 0
    /\ \E t \in DOMAIN pc : pc[t].op = "delete" /\ pc[t].shard = 1

\* A Count that began with no call in flight, and ran with none, has just
\* returned calc.out.
QuietCountReturned == calc.fn = "count" /\ calc.done /\ calc.out2 = 1

\* C20: a Count made while no other operation is in flight returns the number
\* of keys whose last mutation was Set, whatever the time since the last
\* map-level Compact; in such a state every key that was set looks up its
\* value, and if no key is left the result is 0 and every shard's table is nil.
C20_QuiescentCount ==
    QuietCountReturned =>
        /\ calc.out = Cardinality({k \in cfg.keys : hist[k].set})
        /\ \A k \in cfg.keys : hist[k].set => MapGet(k) = [val |-> hist[k].val, found |-> TRUE]
        /\ (\A k \in cfg.keys : ~hist[k].set) =>
               (calc.out = 0 /\ \A s \in DOMAIN shards : shards[s] = NilShard)

\* A Count made alone, inside the cool-down of the map-level Compact, has just
\* returned the number of keys left after a deletion: one shard still holds
\* fewer keys than it once did, another holds none.
C20_Witness ==
    /\ QuietCountReturned
    /\ sinceCompact < CooldownTicks
    /\ calc.out >= 1
    /\ \E s \in DOMAIN shards : shards[s].countHigh > shards[s].count
    /\ \E s \in DOMAIN shards : shards[s] = NilShard

\* The step is the first critical section of a Delete by thread t that removed
\* a key: the thread now stands before the Compact call that ends Delete.
DeleteHitStep(t) == pc[t].op = "idle" /\ pc'[t].op = "delete"

\* The keys stored in shard s after the step.
KeysAfter(s) == IF shards'[s].entries = 0 THEN {} ELSE DOMAIN heap'[shards'[s].entries].kv

\* The step is a Delete that returned at one of its early returns.
DeleteMissStep == last'.via = "miss"

\* C21: a Delete of a key whose shard has no table, or a table without the
\* key, returns early: it changes no shard, no map object and no bucket, and
\* its caller makes no Compact call; count goes down only in a Delete that
\* removes a key that was there, by exactly 1, so a second Delete of the same
\* key leaves count as the first one left it.
C21_DeleteMissIsNoOp ==
    [][ /\ DeleteMissStep => (NothingMoved /\ pc' = pc /\ hist' = hist /\ last'.br = "none")
        /\ \A t \in DOMAIN pc, k \in cfg.keys :
              (pc[t].op = "idle" /\ k \notin KeysOf(getMapShardKey(cfg, k)) /\ Delete(t, k))
              => DeleteMissStep
        /\ \A t \in DOMAIN pc : DeleteHitStep(t) =>
              LET s == pc'[t].shard
              IN  /\ shards[s].entries # 0
                  /\ \E k \in KeysOf(s) : KeysAfter(s) = KeysOf(s) \ {k}
                  /\ shards'[s].count = shards[s].count - 1
        /\ \A s \in DOMAIN shards :
              shards'[s].count < shards[s].count =>
                  \E t \in DOMAIN pc : DeleteHitStep(t) /\ pc'[t].shard = s
      ]_vars

\* A Delete has just returned early on a shard that has a table holding other
\* keys, for a key that an earlier Delete had removed.
C21_Witness ==
    /\ last.via = "miss"
    /\ last.from # 0
    /\ shards[last.shard].count >= 1
    /\ shards[last.shard].count < shards[last.shard].countHigh
    /\ \E k \in cfg.keys : getMapShardKey(cfg, k) = last.shard /\ ~hist[k].set

\* The step is a Set call; calc' tells its key, its value and whether the key
\* had an entry.
SetStep == calc'.fn = "set"

\* C22: a Set of a key that has an entry leaves count and countHigh as they
\* were, a Set of a key that has none raises count by exactly 1 and raises
\* countHigh to the new count if that is larger (and leaves it otherwise); in
\* both cases a Get of the key then returns the value that was set.
C22_SetCounts ==
    [][ SetStep =>
          LET s == getMapShardKey(cfg, calc'.arg)
              before == shards[s]
              after == shards'[s]
          IN  /\ calc'.out = 1 =>
                    (after.count = before.count /\ after.countHigh = before.countHigh)
              /\ calc'.out = 0 =>
                    /\ after.count = before.count + 1
                    /\ after.countHigh = Max(before.countHigh, before.count + 1)
              /\ \A k \in cfg.keys :
                    k = calc'.arg => MapGet(k)' = [val |-> calc'.arg2, found |-> TRUE]
      ]_vars

\* A Set has just replaced, by another value, the value of a key that had an
\* entry, in a shard whose count is below its high-water mark.
C22_Witness ==
    /\ calc.fn = "set"
    /\ calc.out = 1
    /\ MapGet(calc.arg) = [val |-> calc.arg2, found |-> TRUE]
    /\ calc.arg2 # 1
    /\ \E s \in DOMAIN shards :
          s = getMapShardKey(cfg, calc.arg) /\ shards[s].count < shards[s].countHigh

\* The step is part of a Count call: its start, one of its tasks or its return.
CountStep ==
    \E t \in DOMAIN pc : pc'[t] # pc[t] /\ (pc[t].op = "count" \/ pc'[t].op = "count")

\* The step installs in shard s, which had no table, the table a mapPool.Get
\* for defaultSize hands out in the state before the step.
TakesDefaultTable(s) ==
    \E g \in PoolGet(cfg, St, cfg.defaultSize) :
        /\ shards'[s].entries = g.id
        /\ pools' = g.st.pools
        /\ heap'[g.id].cap = Max(g.st.heap[g.id].cap, 1)

\* The step is a Get of some thread, for some key.
GetStep ==
    /\ pc' = pc
    /\ \E t \in DOMAIN pc, k \in cfg.keys : Get(t, k)

\* What a step may do to the tables: see C23.
TableLifeCycleStep ==
    /\ \A s \in DOMAIN shards :
          /\ (shards[s].entries = 0 /\ shards'[s].entries # 0) =>
                /\ \E k \in cfg.keys :
                      getMapShardKey(cfg, k) = s /\ ~hist[k].set /\ hist'[k].set
                /\ TakesDefaultTable(s)
          /\ (shards[s].entries # 0 /\ shards'[s].entries = 0) =>
                /\ CompactStep(s) /\ last'.br = "drain"
                /\ shards[s].count = 0
    /\ GetStep =>
          /\ NothingMoved
          /\ \A k \in cfg.keys :
                shards[getMapShardKey(cfg, k)].entries = 0 => ~MapGet(k).found
    /\ CountStep => NothingMoved

\* C23: a shard has no table before the first Set; a table appears only in a
\* Set of a key of that shard, and is the one the pool hands out for a request
\* of defaultSize; a table disappears only in a Compact that finds count = 0;
\* Get and Count change no shard, no map object and no bucket, and Get on a
\* shard without a table reports not-found.
C23_TableLifeCycle ==
    /\ \A s \in DOMAIN shards : shards[s].entries = 0
    /\ [][TableLifeCycleStep]_vars

\* While a Count is in progress, a Compact that found count = 0 has just taken
\* away the table a Set had given to one shard; another shard has its table.
C23_Witness ==
    /\ last.br = "drain"
    /\ last.from # 0
    /\ shards[last.shard] = NilShard
    /\ \E s \in DOMAIN shards : s # last.shard /\ shards[s].entries # 0
    /\ \E t \in DOMAIN pc : pc[t].op = "count"

\* The callers of locks: every thread and every goroutine it may start.
Tasks == {<<t, g>> : t \in DOMAIN pc, g \in 0 .. cfg.shards}

\* Task <<t, g>> holds the lock of shard s, for writing or for reading.
Holds(t, g, s) == mu[s].w = Task(t, g) \/ Task(t, g) \in mu[s].r

\* Task <<t, g>> is inside a Lock or RLock call on shard s that has not returned.
WaitsFor(t, g, s) ==
    IF g = 0
    THEN pc[t].op \in {"get-wait", "set-wait", "del-wait", "cmp-wait"} /\ pc[t].shard = s
    ELSE pc[t].op \in {"sweep", "count"} /\ g = s + 1 /\ <<s, "wait">> \in pc[t].pend

\* Task <<t, g>> is inside a critical section on shard s.
InSection(t, g, s) ==
    IF g = 0
    THEN pc[t].op \in {"get-in", "set-in", "del-in", "rem-in", "cmp-in"} /\ pc[t].shard = s
    ELSE pc[t].op \in {"sweep", "count"} /\ g = s + 1 /\ <<s, "in">> \in pc[t].pend

\* Some step of a call in flight can be taken.
CanGoOn == ENABLED (LockSteps /\ UNCHANGED <<scn, simple, spc, held, calc, bp>>)

\* C24: a caller that waits for a shard's lock holds no lock; a caller holds a
\* lock exactly while it is inside a critical section of that shard, and a
\* goroutine of a map-level Compact or Count only that of its own shard; a
\* reader waits only while a writer holds the lock or waits for it; and in
\* every state in which a call is in flight some call in flight can take a
\* step, so no state is a deadlock.
C24_NoDeadlock ==
    /\ \A x \in Tasks, s \in DOMAIN shards :
          /\ WaitsFor(x[1], x[2], s) => \A s2 \in DOMAIN shards : ~Holds(x[1], x[2], s2)
          /\ Holds(x[1], x[2], s) <=> InSection(x[1], x[2], s)
          /\ (Holds(x[1], x[2], s) /\ x[2] # 0) => x[2] = s + 1
    /\ \A s \in DOMAIN shards :
          /\ ReadersWaiting(pc, s) # {} => (mu[s].w # 0 \/ WriterWaiting(s))
          /\ mu[s].w # 0 => mu[s].r = {}
    /\ (\E t \in DOMAIN pc : pc[t].op # "idle") => CanGoOn

\* A Delete has removed its key and released its lock, and waits for the lock
\* again for its Compact, while the goroutines of a map-level Compact hold the
\* locks of all the shards at once.
C24_Witness ==
    /\ \E t \in DOMAIN pc : pc[t].op = "cmp-wait" /\ mu[pc[t].shard].w # 0
    /\ \E u \in DOMAIN pc :
          /\ pc[u].op = "sweep"
          /\ \A s \in DOMAIN shards : <<s, "in">> \in pc[u].pend
    /\ Cardinality(DOMAIN shards) >= 2

\* The step is thread t's map-level Compact starting its sweep: lastCompact is
\* set and the goroutines are started.
SweepBegins(t) == pc[t].op = "stamp" /\ pc'[t].op = "sweep"

\* The step is thread t's map-level Compact returning at the cool-down test.
SweepRefused(t) ==
    /\ pc[t].op = "idle" /\ pc'[t].op = "idle"
    /\ sinceCompact < CooldownTicks
    /\ MapCompact(t)

\* C25: a map-level Compact starts its sweep only when the cool-down interval
\* has elapsed since the previous sweep started; a call inside the interval
\* changes no shard, no map object and no bucket; a call made when the
\* interval has elapsed, as the first call on a fresh map is, passes the test.
C25_CoolDown ==
    [][ /\ \A t \in DOMAIN pc : SweepBegins(t) => ~(sinceCompact < CooldownTicks)
        /\ \A t \in DOMAIN pc : SweepRefused(t) => NothingMoved
        /\ \A t \in DOMAIN pc :
              (pc[t].op = "idle" /\ pc'[t].op = "idle"
                 /\ (\A u \in DOMAIN pc : pc[u].op \notin {"stamp", "sweep"})
                 /\ sinceCompact = CooldownTicks /\ t <= cfg.sweepers)
              => ~MapCompact(t)
      ]_vars

\* What a step of a map-level Compact or Count may do: see C26.
FanOutStep ==
    \A t \in DOMAIN pc :
        /\ (pc[t].op \in {"sweep", "count"} /\ pc'[t].op = "idle") => pc[t].pend = {}
        /\ SweepBegins(t) => {x[1] : x \in pc'[t].pend} = DOMAIN shards
        /\ (pc[t].op = "idle" /\ pc'[t].op = "count") =>
              {x[1] : x \in pc'[t].pend} = DOMAIN shards
        /\ \A s \in DOMAIN shards :
              (pc[t].op = "sweep" /\ <<s, "wait">> \in pc[t].pend
                 /\ <<s, "wait">> \notin pc'[t].pend) =>
                  /\ <<s, "in">> \in pc'[t].pend
                  /\ last'.br # "none" /\ last'.shard = s /\ last'.via = "sweep"
        /\ \A s \in DOMAIN shards :
              (pc[t].op \in {"sweep", "count"} /\ pc'[t].op = pc[t].op
                 /\ s \in {x[1] : x \in pc[t].pend}
                 /\ s \notin {x[1] : x \in pc'[t].pend}) =>
                  (<<s, "in">> \in pc[t].pend /\ ~Holds(t, s + 1, s)')

\* C26: a map-level Compact that passed the cool-down test starts a task for
\* every shard, each task runs that shard's Compact, and the call returns only
\* when every task has finished and released its lock; a map-level Count does
\* the same with its tasks; under fair scheduling every such call returns,
\* whatever Set, Get, Delete, Compact and Count calls other threads make.
C26_FanOutReturns ==
    /\ [][FanOutStep]_vars
    /\ \A t \in Threads(CfgLock) :
          (pc[t].op \in {"stamp", "sweep", "count"}) ~> (pc[t].op = "idle")

\* A task of a map-level Compact waits for the lock of a shard on which another
\* thread is inside Set or Delete, while the task for another shard is done.
C26_Witness ==
    \E t, u \in DOMAIN pc, s \in DOMAIN shards :
        /\ pc[t].op = "sweep" /\ pc[t].pend = {<<s, "wait">>}
        /\ pc[u].op \in {"set-in", "rem-in"} /\ pc[u].shard = s
        /\ mu[s].w = Task(u, 0)

\* Some Delete on shard s has removed its key and not yet made its Compact call.
InDeleteWindow(s) == \E t \in DOMAIN pc : pc[t].op = "delete" /\ pc[t].shard = s

\* C27: whatever other threads do on the same shard between the two critical
\* sections of a Delete, in every state in which no Delete on a shard is
\* between its removal and its Compact, the shard's table is nil exactly when
\* its count is 0; a table with count 0 is seen only inside such a window, and
\* count is never above countHigh nor below 0.
C27_WindowConsistency ==
    \A s \in DOMAIN shards :
        /\ ~InDeleteWindow(s) => (shards[s].entries = 0 <=> shards[s].count = 0)
        /\ (shards[s].entries # 0 /\ shards[s].count = 0) => InDeleteWindow(s)
        /\ shards[s].entries = 0 => shards[s].count = 0
        /\ 0 <= shards[s].count /\ shards[s].count <= shards[s].countHigh
        /\ shards[s].count = Cardinality(KeysOf(s))

\* Two Deletes on one shard overlap: the Compact of one has just released the
\* table, at count 0, while the other, which removed the last key, has yet to
\* make its Compact call.
C27_Witness ==
    /\ last.br = "drain"
    /\ last.via = "delete"
    /\ last.from # 0
    /\ shards[last.shard].entries = 0
    /\ InDeleteWindow(last.shard)

\* C28 as stated: countHigh is the largest value count has had since the last
\* full drain (or since creation).
C28_Original == shards[0].countHigh = calc.out

\* C28 (amended): countHigh is the largest value count has had since the last
\* Compact that drained the shard or replaced its table (or since creation);
\* it is never above the largest value since the last full drain.
C28_HighIsPeak ==
    /\ shards[0].countHigh = calc.out2
    /\ shards[0].countHigh <= calc.out

\* A shrink has lowered countHigh below the largest count since the last full
\* drain, and a Set has since raised count and countHigh together.
C28_Witness ==
    /\ shards[0].countHigh < calc.out
    /\ shards[0].countHigh = calc.out2
    /\ shards[0].countHigh >= 2
    /\ shards[0].count = shards[0].countHigh

\* C29: the channel of the bytePool never holds more than size buffers; a Put
\* can always be made, and one made while the channel holds size buffers has
\* handed its buffer to the overflow pool and left the channel as it was; a Get
\* can always be made, also when the channel is empty.
C29_ChannelBounded ==
    /\ NumPooled(bp) <= bp.size
    /\ \A i \in 1 .. Len(bp.out) : ENABLED BufPut(i)
    /\ \A i \in 1 .. Len(bp.out) :
          NumPooled(bp) = bp.size =>
              /\ BytePoolPut(bp, i).did.via = "overflow"
              /\ BytePoolPut(bp, i).channel = bp.channel
              /\ Len(bp.pool) < MaxOverflow =>
                     BytePoolPut(bp, i).pool = Append(bp.pool, Resliced(bp.out[i]))
    /\ Len(bp.out) < MaxOut => ENABLED BufGet
    /\ (bp.did.op = "get" /\ bp.did.via # "channel") => NumPooled(bp) = 0

\* The channel is full and a Put has just handed its buffer to the overflow
\* pool, which holds it.
C29_Witness ==
    /\ bp.size >= 1
    /\ NumPooled(bp) = bp.size
    /\ bp.did.op = "put" /\ bp.did.via = "overflow"
    /\ bp.pool # <<>> /\ bp.pool[Len(bp.pool)] = bp.did.buf

\* C30: every buffer in the channel or in the overflow pool, and so every
\* buffer a Get takes from them, has its length equal to its capacity, also
\* when it was given to Put as a shortened slice.
C30_FullWidth ==
    /\ \A i \in 1 .. Len(bp.channel) : bp.channel[i].len = bp.channel[i].cap
    /\ \A i \in 1 .. Len(bp.pool) : bp.pool[i].len = bp.pool[i].cap
    /\ (bp.did.op = "get" /\ bp.did.via \in {"channel", "pool"}) =>
          /\ bp.did.buf.len = bp.did.buf.cap
          /\ bp.did.buf.was \in {"put", "short"}
          /\ bp.out[Len(bp.out)] = bp.did.buf

\* A Get has just taken from the overflow pool, at full width, a buffer that
\* was given to Put shortened.
C30_Witness ==
    /\ bp.did.op = "get"
    /\ bp.did.via = "pool"
    /\ bp.did.buf.was = "short"
    /\ bp.did.buf.len = bp.did.buf.cap
    /\ bp.did.buf.cap = BufWidth

\* What Get(k) returns in the state a step leads to.
MapGetAfter(k) == ShardGet(shards'[getMapShardKey(cfg, k)], heap', k)

\* Thread t sets key k, for which the map holds no entry, to nil.
NilSetStep(t, k) == ~MapGet(k).found /\ Set(t, k, 0)

\* C31: a Set of the nil value for a key the map holds no entry for stores
\* nothing: afterwards Get of the key yields nil and finds no entry, and the
\* count of the key's shard is what it was.
C31_NilSetStoresNothing ==
    [][ \A t \in DOMAIN pc, k \in cfg.keys :
          NilSetStep(t, k) =>
              /\ MapGetAfter(k).val = 0
              /\ ~MapGetAfter(k).found
              /\ shards'[getMapShardKey(cfg, k)].count =
                     shards[getMapShardKey(cfg, k)].count ]_vars

\* The step is thread t's map-level Compact passing the cool-down test.
PassesTest(t) == pc[t].op = "idle" /\ pc'[t].op = "stamp"

\* C32: the cool-down test of the map-level Compact and the update of
\* lastCompact are atomic with respect to other callers: no caller passes the
\* test while another has passed it and not yet set lastCompact, so of the
\* callers that find the interval elapsed one sweeps, and no sweep starts less
\* than the interval after another.
C32_OneSweepPerInterval ==
    [][ \A t \in DOMAIN pc :
          /\ PassesTest(t) => \A u \in DOMAIN pc \ {t} : pc[u].op # "stamp"
          /\ SweepBegins(t) => sinceCompact = CooldownTicks ]_vars

\* The shards in which the map object id is installed.
Owners(sh, id) == {s \in DOMAIN sh : sh[s].entries = id}

\* No table has two owners: see C33.
OneOwner ==
    /\ \A s1, s2 \in DOMAIN shards :
          (s1 # s2 /\ shards[s1].entries # 0) => shards[s1].entries # shards[s2].entries
    /\ \A s \in DOMAIN shards : shards[s].entries \notin Pooled(pools)
    /\ \A b1, b2 \in DOMAIN pools : b1 # b2 => pools[b1] \cap pools[b2] = {}

\* What a step may do to the owner of a table.  A table that enters a bucket
\* was in no bucket and was the table of the one shard the step worked on,
\* which has given it up; a table that leaves a bucket is reclaimed or becomes
\* the table of one shard that had another table or none.
OwnerStep ==
    /\ OneOwner
    /\ OneOwner'
    /\ \A id \in Pooled(pools') \ Pooled(pools) :
          /\ Owners(shards, id) = {last'.shard}
          /\ last'.from = id
          /\ Owners(shards', id) = {}
    /\ \A id \in Pooled(pools) \ Pooled(pools') :
          \/ id \notin DOMAIN heap' /\ Owners(shards', id) = {}
          \/ /\ Cardinality(Owners(shards', id)) = 1
             /\ Owners(shards, id) = {}
             /\ heap[id].kv = EmptyKV

\* C33: every table has at most one owner.  No table is installed in two
\* shards, none is installed in a shard and held in a bucket, none is held in
\* two buckets or put into a bucket it is in, and a table taken from a bucket is
\* in no bucket any more, so that no second Get can deliver it.
C33_SingleOwner == [][OwnerStep]_vars

\* A shrink has just handed the table of one shard to a bucket, and the other
\* shard has its own table.
C33_Witness ==
    /\ last.br = "shrink"
    /\ last.from \in Pooled(pools)
    /\ shards[last.shard].entries \notin {0, last.from}
    /\ \E s \in DOMAIN shards : s # last.shard /\ shards[s].entries # 0

\* C34: every table held in bucket i has a capacity of at least 2^i; for every
\* n > 0, every table Get(n) can return in the current state, made or taken
\* from a bucket, has a capacity of at least n; and the table a shrink has just
\* installed has a capacity of at least twice the shard's count.
C34_CapacityByClass ==
    /\ \A b \in DOMAIN pools : \A id \in pools[b] : heap[id].cap >= Pow2(b)
    /\ \A n \in Lengths(cfg) \ {0} :
          \A r \in PoolGet(cfg, St, n) : r.st.heap[r.id].cap >= n
    /\ last.br = "shrink" =>
          heap[shards[last.shard].entries].cap >= 2 * shards[last.shard].count

\* A shrink has just installed a table taken from a bucket (its capacity is
\* above what a fresh table would have), and a bucket holds a table whose
\* capacity is not a power of two.
C34_Witness ==
    /\ last.br = "shrink"
    /\ heap[shards[last.shard].entries].cap > 2 * shards[last.shard].count
    /\ \E b \in DOMAIN pools : \E id \in pools[b] : heap[id].cap > Pow2(b)
    /\ \E n \in Lengths(cfg) \ {0} : \E r \in PoolGet(cfg, St, n) : r.id \in Pooled(pools)

\* A Compact of shard s in the current state changes nothing: the shard, the
\* map objects and the buckets stay as they are, and it is no shrink.
CompactChangesNothing(s) ==
    \A r \in ShardCompact(cfg, shards[s], St) :
        r.sh = shards[s] /\ r.st = St /\ r.br # "shrink"

\* C35: Compact of a shard is idempotent.  In the state a Compact of shard s
\* has just left (drain, shrink or neither, with whatever table the pool gave
\* it), a second Compact of s leaves the installed table, its entries, count,
\* countHigh and the buckets as they are, and does not shrink; and when the
\* next step is that second Compact, the step moves nothing.
C35_CompactIdempotent ==
    /\ [](\A s \in DOMAIN shards : JustCompacted(s) => CompactChangesNothing(s))
    /\ [][ \A s \in DOMAIN shards :
             (JustCompacted(s) /\ CompactStep(s)) =>
                 NothingMoved /\ last'.br # "shrink" ]_vars

\* A Compact has just shrunk a shard, handing its old table to a bucket, while
\* another thread stands between the two halves of a Delete on that shard.
C35_Witness ==
    /\ last.br = "shrink"
    /\ last.from \in Pooled(pools)
    /\ shards[last.shard].count > 0
    /\ shards[last.shard].count = shards[last.shard].countHigh
    /\ \E t \in DOMAIN pc : pc[t].op = "delete" /\ pc[t].shard = last.shard

\* C36: whenever the lock of the simpleMap is free, under any interleaving of
\* Set, Get, Delete and Compact by several threads (the halves of a Delete
\* included), count is the number of entries of the table and
\* 0 <= count <= countHigh.
C36_SimpleCounters ==
    /\ simple.count = Cardinality(DOMAIN simple.entries.kv)
    /\ 0 <= simple.count
    /\ simple.count <= simple.countHigh

\* One thread stands between the halves of its Delete while the map holds
\* entries, fewer than it once did, and another thread's Delete has removed one
\* since.
C36_Witness ==
    /\ \A t \in DOMAIN spc : spc[t] = "delete"
    /\ Cardinality(DOMAIN spc) >= 2
    /\ simple.count > 0
    /\ simple.count + 2 <= simple.countHigh

\* The step is a Set on the simpleMap.
SimpleSetStep ==
    \E t \in DOMAIN spc, id \in cfg.keys, val \in cfg.vals : DoSimpleSet(t, id, val)

\* What a step may do to the table of the simpleMap: see C37.
SimpleTableStep ==
    /\ (SimpleCompactStep /\ simple.count = 0) =>
          /\ last'.br = "drain"
          /\ simple'.entries = [present |-> TRUE, cap |-> cfg.defaultSize, kv |-> EmptyKV]
          /\ simple'.count = 0
          /\ simple'.countHigh = 0
    /\ simple.entries.present => simple'.entries.present
    /\ SimpleSetStep => simple'.entries.present
    /\ heap' = heap /\ pools' = pools

\* C37: a Compact of the simpleMap at count = 0 installs an empty table made
\* for defaultSize entries and sets countHigh to 0; Init leaves a table, a Set
\* leaves a table, and no step takes the table away; no step of the simpleMap
\* puts a map into a bucket of the pool or takes one out.
C37_SimpleTableStays ==
    /\ SimpleInit(cfg).entries.present
    /\ Pooled(pools) = {}
    /\ [][SimpleTableStep]_vars

\* The Compact that ends a Delete has just found count = 0 and installed an
\* empty table made for defaultSize entries; the buckets of the pool are empty.
C37_Witness ==
    /\ last.br = "drain"
    /\ last.via = "simple delete"
    /\ simple.entries = [present |-> TRUE, cap |-> cfg.defaultSize, kv |-> EmptyKV]
    /\ simple.countHigh = 0
    /\ Pooled(pools) = {}

\* C38: the shrink tests are computed without wrap-around.  For the counters
\* of the simpleMap in every reachable state, the test of simpleMap.Compact,
\* whose product is formed in the counters' width, answers as count * factor >=
\* countHigh does over the integers; and for every count from 1 to maxMapSize,
\* the only ones for which mapShard.Compact forms it, the 32-bit product
\* count * mapShrinkFactor is the product over the integers.
C38_NoWrapAround ==
    /\ simple.count > 0 =>
          (SimpleKeeps(cfg, simple) <=>
               simple.count * cfg.simpleFactor >= simple.countHigh)
    /\ \A e \in 0 .. maxMapPower :
          /\ Mul32(Pow2(e), mapShrinkFactor) = Pow2(e) * mapShrinkFactor
          /\ Mul32(Max(Pow2(e) - 1, 1), mapShrinkFactor) = Max(Pow2(e) - 1, 1) * mapShrinkFactor

====
